---- MODULE Spec2Model ----
(***************************************************************************)
(* Model of the solstice-sky-viewer endpoints and chat window:             *)
(*   src/src/app/api/sky-objects/route.ts      (GET, lines 93-196)         *)
(*   src/src/app/api/sky-objects/astronomy.ts  (the USNO adapter)          *)
(*   src/unnamed/part_001                      (geocodeLocation)           *)
(*   src/src/app/api/stella-chat/route.ts      (POST, lines 1-146)         *)
(*   src/src/lib/stella/callStellaModel.ts     (the completion call)       *)
(*   src/src/components/StellaChatWindow.tsx   (the chat window)           *)
(*   src/unnamed/part_002                      (the page)                  *)
(*                                                                         *)
(* Spec is one request to the sky-objects endpoint, SunSpec a series of    *)
(* calls of getSunVisibility as the clock advances, ChatSpec one request   *)
(* to the chat endpoint, CelnavSpec one call of                            *)
(* mapCelnavObjectsToSkyObjects, WindowSpec the page and its chat window   *)
(* under the user's actions and the answers of their requests.             *)
(*                                                                         *)
(* Strings that the code inspects character by character (the location,   *)
(* object names, ids) are sequences of one-character strings.  A calendar  *)
(* date "YYYY-MM-DD" is a triple <<y, m, d>>, a clock time "HH:MM" a pair  *)
(* <<h, m>>, an instant (a JavaScript Date) a number of minutes since      *)
(* 1970-01-01T00:00Z.  The server process runs with TZ = UTC, so the       *)
(* local-time Date methods (getDate, setDate, toLocaleTimeString) agree    *)
(* with their UTC counterparts.                                            *)
(***************************************************************************)
EXTENDS Integers, Sequences, FiniteSets, TLC

\* ------------------------------------------------------------------ bounds
\* Number of clock advances that may interleave with one request.
MaxTicks == 2
\* Longest list of entries in a celestial-navigation payload.
MaxCelnav == 2
\* Number of calls of the sun-visibility rule in one run.
MaxSunCalls == 3
\* the most entries of a celestial-navigation body mapped on its own
MaxEntries == 2
\* the most user messages of one conversation in the chat window
MaxTurns == 2

\* ----------------------------------------------------------- characters
\* The characters that String.prototype.trim and \\s take as whitespace.
\* Those a string of this module cannot hold are written by code point.
Whitespace ==
  { " ", "\t", "\n", "\r", "\f", "U+000B", "U+00A0", "U+FEFF", "U+2028", "U+2029",
    "U+1680", "U+2000", "U+2001", "U+2002", "U+2003", "U+2004", "U+2005",
    "U+2006", "U+2007", "U+2008", "U+2009", "U+200A", "U+202F", "U+205F",
    "U+3000" }

\* String.prototype.toLowerCase, one character at a time.
UpperToLower ==
  [ A |-> "a", B |-> "b", C |-> "c", D |-> "d", E |-> "e", F |-> "f", G |-> "g",
    H |-> "h", I |-> "i", J |-> "j", K |-> "k", L |-> "l", M |-> "m", N |-> "n",
    O |-> "o", P |-> "p", Q |-> "q", R |-> "r", S |-> "s", T |-> "t", U |-> "u",
    V |-> "v", W |-> "w", X |-> "x", Y |-> "y", Z |-> "z" ]

LowerChar(c) == IF c \in DOMAIN UpperToLower THEN UpperToLower[c] ELSE c

toLowerCase(s) == [i \in 1..Len(s) |-> LowerChar(s[i])]

RECURSIVE TrimStart(_)
TrimStart(s) ==
  IF s # <<>> /\ Head(s) \in Whitespace THEN TrimStart(Tail(s)) ELSE s

RECURSIVE TrimEnd(_)
TrimEnd(s) ==
  IF s # <<>> /\ s[Len(s)] \in Whitespace
    THEN TrimEnd(SubSeq(s, 1, Len(s) - 1)) ELSE s

\* String.prototype.trim
trim(s) == TrimEnd(TrimStart(s))

\* s.replace(/\s+/g, "-"): every maximal run of whitespace becomes one "-".
RECURSIVE ReplaceWhitespaceRuns(_)
ReplaceWhitespaceRuns(s) ==
  IF s = <<>> THEN <<>>
  ELSE IF Head(s) \in Whitespace
    THEN <<"-">> \o ReplaceWhitespaceRuns(TrimStart(s))
    ELSE <<Head(s)>> \o ReplaceWhitespaceRuns(Tail(s))

\* locationQuery.replace(/,([^\s])/g, ", $1"): a space is inserted after a
\* comma that is directly followed by a non-whitespace character.
RECURSIVE NormalizeQuery(_)
NormalizeQuery(s) ==
  IF s = <<>> THEN <<>>
  ELSE IF Head(s) = "," /\ Len(s) >= 2 /\ s[2] \notin Whitespace
    THEN <<",", " ", s[2]>> \o NormalizeQuery(Tail(Tail(s)))
    ELSE <<Head(s)>> \o NormalizeQuery(Tail(s))

\* ------------------------------------------------------ dates and instants
MinutesPerDay == 24 * 60

\* Date.UTC(y, m - 1, d) in days: the number of days from 1970-01-01 to the
\* date of the proleptic Gregorian calendar (years 1970 and later).
DaysFromCivil(date) ==
  LET y == IF date[2] <= 2 THEN date[1] - 1 ELSE date[1]
      mp == IF date[2] > 2 THEN date[2] - 3 ELSE date[2] + 9
      era == y \div 400
      yoe == y - era * 400
      doy == (153 * mp + 2) \div 5 + date[3] - 1
      doe == yoe * 365 + yoe \div 4 - yoe \div 100 + doy
  IN era * 146097 + doe - 719468

\* the calendar date <<y, m, d>> of the n-th day after 1970-01-01
CivilFromDays(n) ==
  LET z == n + 719468
      era == z \div 146097
      doe == z - era * 146097
      yoe == (doe - doe \div 1460 + doe \div 36524 - doe \div 146096) \div 365
      doy == doe - (365 * yoe + yoe \div 4 - yoe \div 100)
      mp == (5 * doy + 2) \div 153
      d == doy - (153 * mp + 2) \div 5 + 1
      m == IF mp < 10 THEN mp + 3 ELSE mp - 9
      y == yoe + era * 400
  IN << (IF m <= 2 THEN y + 1 ELSE y), m, d >>

\* d = new Date("YYYY-MM-DD"); d.setDate(d.getDate() + offset);
\* d.toISOString().split("T")[0]
AddDays(date, offset) == CivilFromDays(DaysFromCivil(date) + offset)

NextDay(date) == AddDays(date, 1)

\* today.toISOString().split("T")[0]
ISODateOf(instant) == CivilFromDays(instant \div MinutesPerDay)
\* now.getUTCHours(), now.getUTCMinutes()
UTCHours(instant) == (instant % MinutesPerDay) \div 60
UTCMinutes(instant) == instant % 60

\* /^\d{4}-\d{2}-\d{2}$/.test(date) for a date printed by toISOString
IsYMD(date) ==
  /\ date[1] \in 0..9999
  /\ date[2] \in 1..12
  /\ date[3] \in 1..31

\* n printed with w digits
RECURSIVE PadDigits(_, _)
PadDigits(n, w) == IF w = 0 THEN "" ELSE PadDigits(n \div 10, w - 1) \o ToString(n % 10)

\* the date part of toISOString as text: YYYY-MM-DD, and a sign with six
\* digits for a year outside 0000..9999
ISODateText(date) ==
  LET y == date[1] IN
  (IF y \in 0..9999 THEN PadDigits(y, 4)
   ELSE IF y < 0 THEN "-" \o PadDigits(0 - y, 6)
   ELSE "+" \o PadDigits(y, 6))
    \o "-" \o PadDigits(date[2], 2) \o "-" \o PadDigits(date[3], 2)

\* An ISO datetime string `${date}T${HH}:${MM}:00${suffix}`.
ISO(date, time, suffix) == [date |-> date, time |-> time, suffix |-> suffix]

timeToISO(date, time) == ISO(date, time, ".000Z")

\* new Date(iso).getTime(), in minutes
InstantOf(iso) ==
  DaysFromCivil(iso.date) * MinutesPerDay + iso.time[1] * 60 + iso.time[2]

\* new Date(iso) is a valid date: the hour and the minute are in range, or
\* the time is 24:00, the end of the day (an Invalid Date compares false
\* with every instant)
IsValidDate(iso) ==
  \/ iso.time[1] \in 0..23 /\ iso.time[2] \in 0..59
  \/ iso.time[1] = 24 /\ iso.time[2] = 0

\* The hour cycle toLocaleTimeString uses for hour12: false.  It depends on
\* the ICU data of the runtime: "h23" prints the hour after midnight as 00,
\* "h24" as 24.
HourCycles == {"h23", "h24"}

\* new Date(iso).toLocaleTimeString("en-US", {hour: "2-digit", minute: "2-digit", hour12: false})
\* on a runtime with the given hour cycle: the text "HH:MM" with its hour
\* and minute, or the text "Invalid Date"
formatTime(iso, cycle) ==
  IF ~IsValidDate(iso) THEN [text |-> "Invalid Date", h |-> 0, m |-> 0]
  ELSE LET t == InstantOf(iso)
           h == UTCHours(t) IN
       [text |-> "HH:MM",
        h |-> IF h = 0 /\ cycle = "h24" THEN 24 ELSE h,
        m |-> UTCMinutes(t)]

\* the characters of a zero-padded "HH:MM" string, as digit values
TimeDigits(time) ==
  <<time[1] \div 10, time[1] % 10, time[2] \div 10, time[2] % 10>>

\* a < b on two "HH:MM" strings (JavaScript compares strings by code unit)
TimeStringLess(a, b) ==
  LET x == TimeDigits(a) y == TimeDigits(b) IN
  \E i \in 1..4 : x[i] < y[i] /\ \A j \in 1..(i - 1) : x[j] = y[j]

\* ------------------------------------------------ the adapter's tables
KNOWN_OBJECTS == {
  <<"M","e","r","c","u","r","y">>,
  <<"V","e","n","u","s">>,
  <<"M","a","r","s">>,
  <<"J","u","p","i","t","e","r">>,
  <<"S","a","t","u","r","n">>,
  <<"O","r","i","o","n">>,
  <<"U","r","s","a"," ","M","a","j","o","r">>,
  <<"U","r","s","a"," ","M","i","n","o","r">>,
  <<"C","a","s","s","i","o","p","e","i","a">>,
  <<"C","y","g","n","u","s">>,
  <<"L","y","r","a">>,
  <<"A","n","d","r","o","m","e","d","a">>,
  <<"P","e","r","s","e","u","s">>,
  <<"T","a","u","r","u","s">>,
  <<"G","e","m","i","n","i">>,
  <<"L","e","o">>,
  <<"S","c","o","r","p","i","u","s">>,
  <<"S","a","g","i","t","t","a","r","i","u","s">>,
  <<"P","e","g","a","s","u","s">>,
  <<"B","i","g"," ","D","i","p","p","e","r">>,
  <<"O","r","i","o","n","'","s"," ","B","e","l","t">>,
  <<"P","l","e","i","a","d","e","s">>,
  <<"C","r","u","x">>
}

\* known.toLowerCase() for each known of KNOWN_OBJECTS
KnownLowerCase == { toLowerCase(known) : known \in KNOWN_OBJECTS }

\* the `planets` list of getObjectType
planets == {
  <<"m","e","r","c","u","r","y">>,
  <<"v","e","n","u","s">>,
  <<"m","a","r","s">>,
  <<"j","u","p","i","t","e","r">>,
  <<"s","a","t","u","r","n">>,
  <<"u","r","a","n","u","s">>,
  <<"n","e","p","t","u","n","e">>
}

\* ------------------------------------------------- visibility rules
\* getSunVisibility without its `if (!nextSunriseTime)` branch
getSunVisibility_NoFallback(now, sunset, nextSunrise) ==
  IF /\ IsValidDate(sunset) /\ now > InstantOf(sunset)
     /\ nextSunrise # <<>>
     /\ IsValidDate(nextSunrise[1]) /\ now < InstantOf(nextSunrise[1])
    THEN "poor"
    ELSE "good"

\* getSunVisibility with `now >= sunsetTime` as its first test
getSunVisibility_AtSunset(now, sunset, nextSunrise) ==
  IF IsValidDate(sunset) /\ now >= InstantOf(sunset)
    THEN IF /\ nextSunrise # <<>>
            /\ IsValidDate(nextSunrise[1]) /\ now < InstantOf(nextSunrise[1])
           THEN "poor"
         ELSE IF nextSunrise = <<>> THEN "poor"
         ELSE "good"
    ELSE "good"

\* getSunVisibility, with the `new Date()` it reads passed as now;
\* nextSunrise is <<>> (undefined) or <<iso>>.
getSunVisibility(now, sunset, nextSunrise) ==
  IF IsValidDate(sunset) /\ now > InstantOf(sunset)
    THEN IF /\ nextSunrise # <<>>
            /\ IsValidDate(nextSunrise[1]) /\ now < InstantOf(nextSunrise[1])
           THEN "poor"
         ELSE IF nextSunrise = <<>> THEN "poor"
         ELSE "good"
    ELSE "good"

\* getMoonVisibility, with the `new Date()` it reads passed as now; with an
\* Invalid Date every comparison is false and the answer is poor
getMoonVisibility(now, moonrise, moonset) ==
  LET riseTime == InstantOf(moonrise)
      setTime == InstantOf(moonset) IN
  IF ~IsValidDate(moonrise) \/ ~IsValidDate(moonset) THEN "poor"
  ELSE IF setTime < riseTime
    THEN (IF now >= riseTime \/ now < setTime THEN "good" ELSE "poor")
    ELSE IF now >= riseTime /\ now < setTime THEN "good"
    ELSE "poor"

\* getObjectType with the star-catalog test ahead of the planet names
getObjectType_StarFirst(objectName, navStarNumber) ==
  LET name == toLowerCase(objectName) IN
  IF navStarNumber # <<>> THEN "star"
  ELSE IF name \in planets THEN "planet"
  ELSE "other"

\* getObjectType with a default outside the SkyObjectType values
getObjectType_Unknown(objectName, navStarNumber) ==
  LET name == toLowerCase(objectName) IN
  IF name \in planets THEN "planet"
  ELSE IF navStarNumber # <<>> THEN "star"
  ELSE "unknown"

\* getObjectType; navStarNumber is <<>> (undefined) or <<n>>
getObjectType(objectName, navStarNumber) ==
  LET name == toLowerCase(objectName) IN
  IF name \in planets THEN "planet"
  ELSE IF navStarNumber # <<>> THEN "star"
  ELSE "other"

\* getCelnavVisibility with `hc >= 30` as its first test
getCelnavVisibility_Inclusive(hc) ==
  IF hc >= 30 THEN "good"
  ELSE IF hc > 0 THEN "ok"
  ELSE "poor"

\* getCelnavVisibility(hc), hc in whole degrees
getCelnavVisibility(hc) ==
  IF hc > 30 THEN "good"
  ELSE IF hc > 0 THEN "ok"
  ELSE "poor"

\* estimateRiseSetTimes without the two date offsets
estimateRiseSetTimes_SameDay(date, time, hc) ==
  LET hours == time[1]
      minutes == time[2]
      e == IF hc > 0
             THEN [riseHours |-> IF hours - 6 < 0 THEN hours - 6 + 24 ELSE hours - 6,
                   setHours |-> IF hours + 6 >= 24 THEN hours + 6 - 24 ELSE hours + 6]
             ELSE [riseHours |-> IF hours + 6 >= 24 THEN hours + 6 - 24 ELSE hours + 6,
                   setHours |-> IF hours + 18 >= 24 THEN hours + 18 - 24 ELSE hours + 18]
  IN [riseTime |-> ISO(date, <<e.riseHours, minutes>>, ""),
      setTime |-> ISO(date, <<e.setHours, minutes>>, "")]

\* estimateRiseSetTimes(date, time, hc); time is the "HH:MM" pair
estimateRiseSetTimes(date, time, hc) ==
  LET hours == time[1]
      minutes == time[2]
      e == IF hc > 0
             THEN [riseHours |-> IF hours - 6 < 0 THEN hours - 6 + 24 ELSE hours - 6,
                   riseDateOffset |-> IF hours - 6 < 0 THEN -1 ELSE 0,
                   setHours |-> IF hours + 6 >= 24 THEN hours + 6 - 24 ELSE hours + 6,
                   setDateOffset |-> IF hours + 6 >= 24 THEN 1 ELSE 0]
             ELSE [riseHours |-> IF hours + 6 >= 24 THEN hours + 6 - 24 ELSE hours + 6,
                   riseDateOffset |-> IF hours + 6 >= 24 THEN 1 ELSE 0,
                   setHours |-> IF hours + 18 >= 24 THEN hours + 18 - 24 ELSE hours + 18,
                   setDateOffset |-> IF hours + 18 >= 24 THEN 1 ELSE 0]
  IN [riseTime |-> ISO(AddDays(date, e.riseDateOffset), <<e.riseHours, minutes>>, ""),
      setTime |-> ISO(AddDays(date, e.setDateOffset), <<e.setHours, minutes>>, "")]

\* ------------------------------------------------- celestial navigation
\* One entry of CelnavResponse.properties.data.  A field the entry lacks
\* is <<>>, a field it has is a one-element sequence.
CelnavItem(object, nav, almanac) ==
  [object |-> object, nav_star_number |-> nav, almanac_data |-> almanac]

\* `altitude.toFixed(1)` of the whole-degree altitudes used here: hc, ".0"
CelnavNote(altitude) ==
  IF altitude > 0
    THEN [text |-> "Visible tonight at %1 altitude", args |-> <<<<altitude, 0>>>>, extra |-> <<>>]
    ELSE [text |-> "Below horizon, will rise later tonight", args |-> <<>>, extra |-> <<>>]

\* the two `continue` tests of the loop in mapCelnavObjectsToSkyObjects
CelnavSkipped(item) ==
  \/ item.object = <<>>
  \/ item.object[1] = <<>>
  \/ toLowerCase(item.object[1]) = <<"s","u","n">>
  \/ toLowerCase(item.object[1]) = <<"m","o","o","n">>
  \/ toLowerCase(trim(item.object[1])) \notin KnownLowerCase

\* the object pushed for an entry that passed the filter
CelnavObject(item, date, time) ==
  LET objectName == item.object[1]
      hc == item.almanac_data[1].hc
      est == estimateRiseSetTimes(date, time, hc)
  IN [id |-> ReplaceWhitespaceRuns(toLowerCase(objectName)),
      name |-> objectName,
      type |-> getObjectType(objectName, item.nav_star_number),
      visibility |-> getCelnavVisibility(hc),
      riseTime |-> est.riseTime,
      setTime |-> est.setTime,
      note |-> CelnavNote(hc)]

\* The loop of mapCelnavObjectsToSkyObjects over the entries.  Reading
\* item.almanac_data.hc of an entry without almanac_data raises a TypeError:
\* the result is [threw, objects].
RECURSIVE MapCelnavItems(_, _, _)
MapCelnavItems(items, date, time) ==
  IF items = <<>> THEN [threw |-> FALSE, objects |-> <<>>]
  ELSE LET item == Head(items)
           rest == MapCelnavItems(Tail(items), date, time) IN
       IF CelnavSkipped(item) THEN rest
       ELSE IF item.almanac_data = <<>> THEN [threw |-> TRUE, objects |-> <<>>]
       ELSE IF rest.threw THEN rest
       ELSE [threw |-> FALSE,
             objects |-> <<CelnavObject(item, date, time)>> \o rest.objects]

\* mapCelnavObjectsToSkyObjects(celnavData, date, time).  celnavData is a
\* parsed body [shape, items]: shape "array" when properties.data is an
\* array, anything else when properties or properties.data is missing or
\* not an array.
mapCelnavObjectsToSkyObjects(celnavData, date, time) ==
  IF celnavData.shape # "array" THEN [threw |-> FALSE, objects |-> <<>>]
  ELSE MapCelnavItems(celnavData.items, date, time)

\* ------------------------------------------------------------- inputs
\* The `location` query parameter: <<>> when absent (searchParams.get
\* returns null), else <<string>>.
LocationParams ==
  { <<>>, << <<>> >>, << <<" ">> >>, << <<"\t", "\n">> >>,
    << <<" ", "D", ",", "C", " ">> >> }

\* What the geocoding fetch can produce.
GeocodeOutcomes ==
  { [kind |-> "reject", text |-> "fetch failed"],
    [kind |-> "notok", text |-> "Too Many Requests"],
    [kind |-> "badjson", text |-> "Unexpected token < in JSON"],
    [kind |-> "noresults", text |-> ""],
    [kind |-> "emptyresults", text |-> ""],
    [kind |-> "ok", text |-> ""] }

\* data.results[0] of a successful geocoding answer
GeocodeHit ==
  [name |-> "Denver", admin1 |-> <<"Colorado">>, country |-> <<"United States">>,
   latitude |-> 40, longitude |-> -105]

Event(phen, time) == [phen |-> phen, time |-> time]

\* sundata arrays of the primary payload (times are UTC clock times)
SunNone == <<>>
SunRiseOnly == << Event("Rise", <<6, 34>>) >>
SunDay ==
  << Event("Begin Civil Twilight", <<6, 3>>), Event("Rise", <<6, 34>>),
     Event("Upper Transit", <<11, 8>>), Event("Set", <<15, 42>>) >>
\* a site whose sunset falls earlier in the UTC day than its sunrise
SunSetFirst ==
  << Event("Set", <<7, 30>>), Event("Upper Transit", <<2, 40>>),
     Event("Rise", <<21, 47>>) >>

\* moondata arrays of the primary payload
MoonRiseOnly == << Event("Rise", <<8, 0>>) >>
MoonDay ==
  << Event("Rise", <<8, 0>>), Event("Upper Transit", <<12, 20>>),
     Event("Set", <<16, 44>>) >>
MoonSetFirst == << Event("Set", <<0, 34>>), Event("Rise", <<8, 0>>) >>

\* A parsed USNO oneday body.  geometry, sundata, moondata, curphase and
\* fracillum are <<>> when the body lacks them.
USNOResponse(geometry, sundata, moondata, curphase, fracillum) ==
  [geometry |-> geometry, sundata |-> sundata, moondata |-> moondata,
   curphase |-> curphase, fracillum |-> fracillum]

Coordinates == <<[lon |-> -105, lat |-> 40]>>

PrimaryBodies ==
  { USNOResponse(Coordinates, <<s>>, <<>>, <<>>, <<>>) :
      s \in {SunNone, SunRiseOnly, SunDay, SunSetFirst} }
  \cup { USNOResponse(Coordinates, <<s>>, <<MoonDay>>, <<"Waxing Crescent">>, <<"2%">>) :
           s \in {SunNone, SunDay} }
  \cup { USNOResponse(Coordinates, <<s>>, <<MoonSetFirst>>, <<"Full Moon">>, <<>>) :
           s \in {SunNone, SunDay} }
  \cup { USNOResponse(Coordinates, <<SunDay>>, <<MoonRiseOnly>>, <<>>, <<>>),
         USNOResponse(<<>>, <<SunDay>>, <<>>, <<>>, <<>>),
         USNOResponse(Coordinates, <<>>, <<>>, <<>>, <<>>) }

NoBody == USNOResponse(<<>>, <<>>, <<>>, <<>>, <<>>)

\* What the primary rise/set fetch can produce.
PrimaryOutcomes ==
  { [kind |-> "reject", text |-> "fetch failed", body |-> NoBody],
    [kind |-> "notok", text |-> "503 Service Unavailable", body |-> NoBody],
    [kind |-> "badjson", text |-> "Unexpected token < in JSON", body |-> NoBody] }
  \cup { [kind |-> "ok", text |-> "", body |-> b] : b \in PrimaryBodies }

\* What the next-day rise/set fetch can produce.
TomorrowOutcomes ==
  { [kind |-> "reject", text |-> "fetch failed", body |-> NoBody],
    [kind |-> "notok", text |-> "503 Service Unavailable", body |-> NoBody],
    [kind |-> "badjson", text |-> "Unexpected token < in JSON", body |-> NoBody],
    [kind |-> "ok", text |-> "", body |-> NoBody],
    [kind |-> "ok", text |-> "",
     body |-> USNOResponse(Coordinates, << <<Event("Set", <<15, 43>>)>> >>, <<>>, <<>>, <<>>)],
    [kind |-> "ok", text |-> "",
     body |-> USNOResponse(Coordinates,
                << <<Event("Rise", <<6, 35>>), Event("Set", <<15, 43>>)>> >>,
                <<>>, <<>>, <<>>)] }

\* Entries a celestial-navigation body can list.
CelnavItems ==
  { CelnavItem(<< <<"M","a","r","s">> >>, <<>>, <<[hc |-> 45]>>),
    CelnavItem(<< <<"o","r","i","o","n">> >>, <<>>, <<[hc |-> -5]>>),
    CelnavItem(<< <<"S","i","r","i","u","s">> >>, <<18>>, <<[hc |-> 30]>>),
    CelnavItem(<< <<"V","e","n","u","s">> >>, <<>>, <<>>),
    CelnavItem(<<>>, <<>>, <<>>) }

\* A body that lists four planets, each with its altitude.
CelnavPlanets ==
  << CelnavItem(<< <<"V","e","n","u","s">> >>, <<>>, <<[hc |-> 20]>>),
     CelnavItem(<< <<"M","a","r","s">> >>, <<>>, <<[hc |-> 45]>>),
     CelnavItem(<< <<"J","u","p","i","t","e","r">> >>, <<>>, <<[hc |-> 60]>>),
     CelnavItem(<< <<"S","a","t","u","r","n">> >>, <<>>, <<[hc |-> -10]>>) >>

RECURSIVE SeqsUpTo(_, _)
\* the sequences over S of length at most n
SeqsUpTo(S, n) ==
  IF n = 0 THEN {<<>>}
  ELSE LET shorter == SeqsUpTo(S, n - 1) IN
       shorter \cup { Append(q, x) : q \in shorter, x \in S }

CelnavBody(shape, items) == [shape |-> shape, items |-> items]

\* What the celestial-navigation fetch can produce.  A parsed body has
\* shape "null" (the JSON value null), "noproperties", "notarray"
\* (properties.data is not an array) or "array".
CelnavOutcomes ==
  { [kind |-> "reject", body |-> CelnavBody("null", <<>>)],
    [kind |-> "notok", body |-> CelnavBody("null", <<>>)],
    [kind |-> "badjson", body |-> CelnavBody("null", <<>>)],
    [kind |-> "ok", body |-> CelnavBody("null", <<>>)],
    [kind |-> "ok", body |-> CelnavBody("noproperties", <<>>)],
    [kind |-> "ok", body |-> CelnavBody("notarray", <<>>)],
    [kind |-> "ok", body |-> CelnavBody("array", CelnavPlanets)] }
  \cup { [kind |-> "ok", body |-> CelnavBody("array", items)] :
           items \in SeqsUpTo(CelnavItems, MaxCelnav) }

\* Clock readings at which a request can arrive, and the amounts by which
\* the clock advances while the handler awaits a collaborator.
StartInstants ==
  { DaysFromCivil(<<2024, 2, 28>>) * MinutesPerDay + 5 * 60,
    DaysFromCivil(<<2024, 2, 28>>) * MinutesPerDay + 10 * 60 }
ClockSteps == { 11 * 60 }

\* ------------------------------------------------------ collaborators
\* geocodeLocation whose catch block drops the message of what it caught
geocodeLocation_Generic(o) ==
  IF o.kind = "ok"
    THEN [threw |-> FALSE,
          result |-> [lat |-> GeocodeHit.latitude, lon |-> GeocodeHit.longitude,
                      resolvedName |-> <<GeocodeHit.name>>],
          message |-> <<>>]
    ELSE [threw |-> TRUE,
          result |-> [lat |-> 0, lon |-> 0, resolvedName |-> <<>>],
          message |-> <<"Failed to geocode location: ", "Unknown error">>]

\* geocodeLocation (part_001): the result it returns or the Error it
\* throws, for each thing its fetch can produce.  The message is the list
\* of its pieces.  fetch is called without an AbortSignal, so the
\* AbortError branch has no outcome that selects it.
geocodeLocation(o) ==
  IF o.kind = "ok"
    THEN [threw |-> FALSE,
          result |-> [lat |-> GeocodeHit.latitude, lon |-> GeocodeHit.longitude,
                      resolvedName |-> <<GeocodeHit.name>>
                        \o (IF GeocodeHit.admin1 # <<>> THEN <<", ", GeocodeHit.admin1[1]>> ELSE <<>>)
                        \o (IF GeocodeHit.country # <<>> THEN <<", ", GeocodeHit.country[1]>> ELSE <<>>)],
          message |-> <<>>]
    ELSE [threw |-> TRUE,
          result |-> [lat |-> 0, lon |-> 0, resolvedName |-> <<>>],
          message |->
            IF o.kind = "abort" THEN <<"Geocoding request timed out">>
            ELSE <<"Failed to geocode location: ">> \o
                 (IF o.kind = "notok" THEN <<"Geocoding API error: ", o.text>>
                  ELSE IF o.kind \in {"noresults", "emptyresults"} THEN <<"No location found">>
                  ELSE <<o.text>>)]

\* fetchAstronomyData: the body it returns or the error it throws
fetchAstronomyData(o) ==
  IF o.kind = "ok" THEN [threw |-> FALSE, data |-> o.body, message |-> <<>>]
  ELSE IF o.kind = "notok"
    THEN [threw |-> TRUE, data |-> NoBody, message |-> <<"Error: ", "USNO API error: ", o.text>>]
  ELSE IF o.kind = "badjson"
    THEN [threw |-> TRUE, data |-> NoBody, message |-> <<"SyntaxError: ", o.text>>]
  ELSE [threw |-> TRUE, data |-> NoBody, message |-> <<"TypeError: ", o.text>>]

\* fetchCelnavData: <<>> for null, else <<parsed body>>
fetchCelnavData(o) ==
  IF o.kind = "ok" /\ o.body.shape # "null" THEN <<o.body>> ELSE <<>>

\* the first two digits of a number printed with two digits or more
RECURSIVE FirstTwoDigits(_)
FirstTwoDigits(n) == IF n < 100 THEN n ELSE FirstTwoDigits(n \div 10)

\* fetchCelnavData 137-139 for a padStart(2, "0") pair: a time that begins
\* with two digits, a colon and two digits is cut to its first five
\* characters, any other time is left as it is
formattedTime(time) ==
  IF time[1] \in 0..99 /\ time[2] >= 0
    THEN <<time[1], FirstTwoDigits(time[2])>>
    ELSE time

\* /^\d{2}:\d{2}$/.test(formattedTime) of fetchCelnavData 141
IsHHMM(time) ==
  LET t == formattedTime(time) IN t[1] \in 0..99 /\ t[2] \in 0..99

\* array.find(event => event.phen === phen): <<>> or <<the first match>>
RECURSIVE FindEvent(_, _)
FindEvent(events, phen) ==
  IF events = <<>> THEN <<>>
  ELSE IF Head(events).phen = phen THEN <<Head(events)>>
  ELSE FindEvent(Tail(events), phen)

\* The try block that reads tomorrow's sunrise: <<>> or <<iso>>.
NextSunrise(o, tomorrowDate) ==
  IF o.kind # "ok" THEN <<>>
  ELSE IF o.body.sundata = <<>> THEN <<>>
  ELSE LET tomorrowSunRiseEvent == FindEvent(o.body.sundata[1], "Rise") IN
       IF tomorrowSunRiseEvent = <<>> THEN <<>>
       ELSE <<timeToISO(tomorrowDate, tomorrowSunRiseEvent[1].time)>>

\* the Sun object pushed by mapAstronomyDataToSkyObjects, on a runtime with
\* the given hour cycle
SunObject(now, formattedDate, sunRiseEvent, sunSetEvent, nextSunrise, cycle) ==
  LET sunrise == timeToISO(formattedDate, sunRiseEvent.time)
      sunset == timeToISO(formattedDate, sunSetEvent.time)
  IN [id |-> <<"s","u","n">>,
      name |-> <<"S","u","n">>,
      type |-> "star",
      visibility |-> getSunVisibility(now, sunset, nextSunrise),
      riseTime |-> sunrise,
      setTime |-> sunset,
      note |-> [text |-> "Sunrise at %1 / Sunset at %2",
                args |-> <<formatTime(sunrise, cycle), formatTime(sunset, cycle)>>,
                extra |-> <<>>]]

\* the moonset string without the rollover
MoonsetISO_NoRollover(formattedDate, moonRiseEvent, moonSetEvent) ==
  timeToISO(formattedDate, moonSetEvent.time)

\* the moonset string after the rollover test
MoonsetISO(formattedDate, moonRiseEvent, moonSetEvent) ==
  IF TimeStringLess(moonSetEvent.time, moonRiseEvent.time)
    THEN timeToISO(NextDay(formattedDate), moonSetEvent.time)
    ELSE timeToISO(formattedDate, moonSetEvent.time)

\* The Moon part of mapAstronomyDataToSkyObjects: the objects it pushes.
MoonObjects(now, data, formattedDate, cycle) ==
  IF data.moondata = <<>> THEN <<>>
  ELSE LET moonRiseEvent == FindEvent(data.moondata[1], "Rise")
           moonSetEvent == FindEvent(data.moondata[1], "Set") IN
       IF moonRiseEvent = <<>> \/ moonSetEvent = <<>> THEN <<>>
       ELSE LET moonrise == timeToISO(formattedDate, moonRiseEvent[1].time)
                moonset == MoonsetISO(formattedDate, moonRiseEvent[1], moonSetEvent[1])
            IN << [id |-> <<"m","o","o","n">>,
                   name |-> <<"M","o","o","n">>,
                   type |-> "other",
                   visibility |-> getMoonVisibility(now, moonrise, moonset),
                   riseTime |-> moonrise,
                   setTime |-> moonset,
                   note |-> [text |-> "Moonrise at %1 / Moonset at %2",
                             args |-> <<formatTime(moonrise, cycle),
                                        formatTime(moonset, cycle)>>,
                             extra |-> IF data.curphase = <<>> THEN <<>>
                                       ELSE IF data.fracillum = <<>> THEN data.curphase
                                       ELSE data.curphase \o data.fracillum]] >>

\* ------------------------------------------------------------ responses
\* NextResponse.json(errorResponse) without its { status } option
ErrorResponse_DefaultStatus(status, code, message) ==
  [status |-> 200, body |-> [error |-> [code |-> code, message |-> message]]]

ErrorResponse(status, code, message) ==
  [status |-> status, body |-> [error |-> [code |-> code, message |-> message]]]

SuccessResponse(location, d, objs) ==
  [status |-> 200, body |-> [location |-> location, date |-> d, objects |-> objs]]

Call(api, query, d, time, coords) ==
  [api |-> api, query |-> query, date |-> d, time |-> time, coords |-> coords]

\* ------------------------------------- the celestial-navigation mapping alone
\* Entries handed to mapCelnavObjectsToSkyObjects: names in several letter
\* cases and with surrounding whitespace, Sun and Moon, a name outside the
\* allow-list, entries with a star-catalog index, and altitudes on both
\* sides of 0 and of 30.
CelnavEntries ==
  { CelnavItem(<< <<"M","a","r","s">> >>, <<3>>, <<[hc |-> 45]>>),
    CelnavItem(<< <<"V","E","N","U","S">> >>, <<>>, <<[hc |-> 30]>>),
    CelnavItem(<< <<" ","V","e","n","u","s">> >>, <<>>, <<[hc |-> 1]>>),
    CelnavItem(<< <<"o","r","i","o","n">> >>, <<>>, <<[hc |-> 0]>>),
    CelnavItem(<< <<"P","l","e","i","a","d","e","s">> >>, <<5>>, <<[hc |-> 31]>>),
    CelnavItem(<< <<"U","r","s","a"," ","M","a","j","o","r">> >>, <<>>, <<[hc |-> -20]>>),
    CelnavItem(<< <<"S","U","N">> >>, <<>>, <<[hc |-> 50]>>),
    CelnavItem(<< <<"m","o","o","n">> >>, <<>>, <<[hc |-> 10]>>),
    CelnavItem(<< <<" ","S","u","n">> >>, <<>>, <<[hc |-> 50]>>),
    CelnavItem(<< <<"P","o","l","a","r","i","s">> >>, <<0>>, <<[hc |-> 40]>>),
    CelnavItem(<< <<"L","e","o">> >>, <<>>, <<>>),
    CelnavItem(<<>>, <<>>, <<>>) }

\* the request dates and the "HH:MM" clock times handed to the mapping
MapDates == { <<2023, 12, 31>>, <<2024, 1, 1>>, <<2024, 3, 1>> }
MapTimes == { <<0, 0>>, <<5, 59>>, <<6, 0>>, <<17, 30>>, <<18, 0>>, <<23, 59>> }

\* the parsed celestial-navigation bodies handed to the mapping
MapBodies ==
  { CelnavBody("noproperties", <<>>), CelnavBody("notarray", <<>>) }
  \cup { CelnavBody("array", items) : items \in SeqsUpTo(CelnavEntries, MaxEntries) }

\* ---------------------------------------------------------------- state
VARIABLES
  pc,             \* where the handler is: "idle", the collaborator it awaits, "done"
  clock,          \* the current instant (what `new Date()` reads)
  ticks,          \* clock advances so far
  locationQuery,  \* searchParams.get("location"): <<>> or <<string>>
  geocodeResult,  \* route.ts GET: geocodeResult
  date,           \* route.ts GET: date
  astronomyData,  \* route.ts GET: astronomyData
  mapNow,         \* mapAstronomyDataToSkyObjects: now
  currentTime,    \* mapAstronomyDataToSkyObjects: currentTime
  objects,        \* mapAstronomyDataToSkyObjects: objects
  calls,          \* the collaborator calls issued, in order
  io,             \* what each collaborator answered
  responses,      \* the responses returned
  sunCalls,       \* the calls of getSunVisibility made so far, with their results
  chatPc,         \* where the chat handler is: "idle", "model", "done"
  apiKey,         \* process.env.OPENAI_API_KEY: <<>> or <<key>>
  body,           \* stella-chat POST: what request.json() gave
  modelCalls,     \* the requests handed to callStellaModel, in order
  modelIo,        \* what the completion service answered
  chatResponses,  \* the responses returned by the chat endpoint
  celnavMaps,     \* the call of mapCelnavObjectsToSkyObjects made, with its result
  isOpen,         \* StellaChatWindow: the isOpen prop (the page's isChatOpen)
  messages,       \* StellaChatWindow: messages
  input,          \* StellaChatWindow: input
  isLoading,      \* StellaChatWindow: isLoading
  inFlight,       \* the chat request awaited by handleSubmit: <<>> or <<newMessages>>
  state,          \* SolsticeSkyViewer: state ("idle", "loading", "success", "error")
  answered,       \* the updates queued by handleSubmit after its await: <<>> or <<messages>>
  pendingReset,   \* StellaChatWindow: the reset effect still to come ("none", "effect", "updates")
  hourCycle       \* the hour cycle of the runtime the server runs on

skyVars == <<pc, locationQuery, geocodeResult, date, astronomyData, mapNow,
             currentTime, objects, calls, io, responses>>
chatVars == <<chatPc, apiKey, body, modelCalls, modelIo, chatResponses>>

winVars == <<isOpen, messages, input, isLoading, inFlight, state, answered, pendingReset>>

vars == <<skyVars, clock, ticks, sunCalls, chatVars, celnavMaps, winVars, hourCycle>>

NoOutcome == [kind |-> "none"]

\* the sky-objects handler before a request
SkyIdle ==
  /\ pc = "idle"
  /\ locationQuery = <<>>
  /\ geocodeResult = [lat |-> 0, lon |-> 0, resolvedName |-> <<>>]
  /\ date = <<0, 0, 0>>
  /\ astronomyData = NoBody
  /\ mapNow = 0
  /\ currentTime = <<0, 0>>
  /\ objects = <<>>
  /\ calls = <<>>
  /\ io = [geocode |-> NoOutcome, primary |-> NoOutcome,
           celnav |-> NoOutcome, tomorrow |-> NoOutcome]
  /\ responses = <<>>

\* the greeting a fresh or reset window shows (its emoji left out)
Greeting ==
  [role |-> "assistant",
   content |-> <<"Hi! I'm Stella, your friendly sky guide! What would you like to know about the objects visible in your night sky?">>]

\* the page before a search (the chat window is not mounted yet) and the
\* useState values a mounted window starts from
WindowClosed ==
  /\ state = "idle"
  /\ isOpen = FALSE
  /\ messages = <<Greeting>>
  /\ input = <<>>
  /\ isLoading = FALSE
  /\ inFlight = <<>>
  /\ answered = <<>>
  /\ pendingReset = "none"

\* the chat handler before a request
ChatIdle ==
  /\ chatPc = "idle"
  /\ apiKey = <<>>
  /\ body = NoOutcome
  /\ modelCalls = <<>>
  /\ modelIo = NoOutcome
  /\ chatResponses = <<>>

Init ==
  /\ SkyIdle
  /\ clock \in StartInstants
  /\ ticks = 0
  /\ sunCalls = <<>>
  /\ ChatIdle
  /\ celnavMaps = <<>>
  /\ WindowClosed
  /\ hourCycle \in HourCycles

\* return NextResponse.json(...)
Respond(r) ==
  /\ responses' = Append(responses, r)
  /\ pc' = "done"

\* the location test without the trim
IsBlankLocation_NoTrim(param) ==
  param = <<>> \/ param[1] = <<>>

\* route.ts 98: !locationQuery || locationQuery.trim() === ""
IsBlankLocation(param) ==
  param = <<>> \/ param[1] = <<>> \/ trim(param[1]) = <<>>

\* the success response without the empty-list check
Finish_NoEmptyCheck(objs) ==
  /\ objects' = objs
  /\ Respond(SuccessResponse(
       [query |-> locationQuery[1], resolvedName |-> geocodeResult.resolvedName,
        lat |-> geocodeResult.lat, lon |-> geocodeResult.lon],
       date, objs))

\* route.ts 166-183: the empty-list check and the success response
Finish(objs) ==
  /\ objects' = objs
  /\ IF Len(objs) = 0
       THEN Respond(ErrorResponse(500, "UPSTREAM_ERROR", <<"No astronomy data available.">>))
       ELSE Respond(SuccessResponse(
              [query |-> locationQuery[1], resolvedName |-> geocodeResult.resolvedName,
               lat |-> geocodeResult.lat, lon |-> geocodeResult.lon],
              date, objs))

\* a raising mapAstronomyDataToSkyObjects caught by the outermost catch only
MappingFailed_Unknown(text) ==
  Respond(ErrorResponse(500, "UNKNOWN", <<"An unexpected error occurred: ", text>>))

\* route.ts 156-163: mapAstronomyDataToSkyObjects raised
MappingFailed(text) ==
  Respond(ErrorResponse(500, "UPSTREAM_ERROR",
            <<"Failed to process astronomy data: ", "TypeError: ", text>>))

\* GET, from the request to the geocoding fetch (route.ts 93-112)
GET(param) ==
  /\ pc = "idle"
  /\ locationQuery' = param
  /\ IF IsBlankLocation(param)
       THEN /\ Respond(ErrorResponse(400, "INVALID_LOCATION",
                         <<"Location parameter is required.">>))
            /\ UNCHANGED calls
       ELSE /\ calls' = Append(calls,
                  Call("geocode", NormalizeQuery(trim(param[1])), <<0, 0, 0>>, <<0, 0>>, <<>>))
            /\ pc' = "geocode"
            /\ UNCHANGED responses
  /\ UNCHANGED <<clock, ticks, geocodeResult, date, astronomyData, mapNow,
                 currentTime, objects, io>>
  /\ UNCHANGED <<sunCalls, chatVars, celnavMaps, winVars, hourCycle>>

\* GET, from the geocoding answer to the primary fetch (route.ts 112-141)
GeocodeDone(o) ==
  /\ pc = "geocode"
  /\ io' = [io EXCEPT !.geocode = o]
  /\ LET g == geocodeLocation(o)
         today == clock
         d == ISODateOf(today) IN
     IF g.threw
       THEN /\ Respond(ErrorResponse(400, "INVALID_LOCATION",
                         <<"Could not resolve location: ", "Error: ">> \o g.message))
            /\ UNCHANGED <<geocodeResult, date, calls>>
       ELSE /\ geocodeResult' = g.result
            /\ date' = d
            /\ IF ~IsYMD(d)
                 THEN /\ Respond(ErrorResponse(500, "UPSTREAM_ERROR",
                                   <<"Failed to fetch astronomy data: ", "Error: ",
                                     "Invalid date format. Expected YYYY-MM-DD, got: ",
                                     ISODateText(d)>>))
                      /\ UNCHANGED calls
                 ELSE /\ calls' = Append(calls,
                            Call("rstt", <<>>, d, <<0, 0>>, <<g.result.lat, g.result.lon>>))
                      /\ pc' = "primary"
                      /\ UNCHANGED responses
  /\ UNCHANGED <<clock, ticks, locationQuery, astronomyData, mapNow, currentTime, objects>>
  /\ UNCHANGED <<sunCalls, chatVars, celnavMaps, winVars, hourCycle>>

\* mapAstronomyDataToSkyObjects from line 453 on, issuing the next-day fetch
\* whether or not the sun events were found
AfterCelnav_AlwaysTomorrow(data, time, celnavData) ==
  LET mapped == IF celnavData = <<>> THEN [threw |-> FALSE, objects |-> <<>>]
                ELSE mapCelnavObjectsToSkyObjects(celnavData[1], date, time) IN
  IF mapped.threw
    THEN /\ MappingFailed("Cannot read properties of undefined (reading 'hc')")
         /\ UNCHANGED <<objects, calls>>
  ELSE /\ objects' = mapped.objects
       /\ calls' = Append(calls,
             Call("rstt", <<>>, NextDay(date), <<0, 0>>,
                  <<data.geometry[1].lat, data.geometry[1].lon>>))
       /\ pc' = "tomorrow"
       /\ UNCHANGED responses

\* mapAstronomyDataToSkyObjects from line 453 on, once fetchCelnavData has
\* returned celnavData (<<>> for null): the celestial-navigation objects,
\* the sun events and either the next-day fetch or the rest of the mapping.
AfterCelnav(data, time, celnavData) ==
  LET mapped == IF celnavData = <<>> THEN [threw |-> FALSE, objects |-> <<>>]
                ELSE mapCelnavObjectsToSkyObjects(celnavData[1], date, time) IN
  IF mapped.threw
    THEN /\ MappingFailed("Cannot read properties of undefined (reading 'hc')")
         /\ UNCHANGED <<objects, calls>>
  ELSE IF data.sundata = <<>>
    THEN /\ MappingFailed("Cannot read properties of undefined (reading 'find')")
         /\ objects' = mapped.objects
         /\ UNCHANGED calls
  ELSE LET sunRiseEvent == FindEvent(data.sundata[1], "Rise")
           sunSetEvent == FindEvent(data.sundata[1], "Set") IN
       IF sunRiseEvent # <<>> /\ sunSetEvent # <<>>
         THEN /\ objects' = mapped.objects
              /\ calls' = Append(calls,
                    Call("rstt", <<>>, NextDay(date), <<0, 0>>,
                         <<data.geometry[1].lat, data.geometry[1].lon>>))
              /\ pc' = "tomorrow"
              /\ UNCHANGED responses
         ELSE /\ Finish(mapped.objects \o MoonObjects(clock, data, date, hourCycle))
              /\ UNCHANGED calls

\* GET, from the primary answer to the celestial-navigation fetch
\* (route.ts 142-155, astronomy.ts 432-451 and 124-153)
PrimaryDone(o) ==
  /\ pc = "primary"
  /\ io' = [io EXCEPT !.primary = o]
  /\ LET f == fetchAstronomyData(o)
         now == clock
         time == <<UTCHours(now), UTCMinutes(now)>> IN
     IF f.threw
       THEN /\ Respond(ErrorResponse(500, "UPSTREAM_ERROR",
                         <<"Failed to fetch astronomy data: ">> \o f.message))
            /\ UNCHANGED <<astronomyData, mapNow, currentTime, objects, calls>>
       ELSE /\ astronomyData' = f.data
            /\ IF f.data.geometry = <<>>
                 THEN /\ MappingFailed("Cannot read properties of undefined (reading 'coordinates')")
                      /\ UNCHANGED <<mapNow, currentTime, objects, calls>>
                 ELSE /\ mapNow' = now
                      /\ currentTime' = time
                      /\ IF IsYMD(date) /\ IsHHMM(time)
                           THEN /\ calls' = Append(calls,
                                      Call("celnav", <<>>, date, formattedTime(time),
                                           <<f.data.geometry[1].lat, f.data.geometry[1].lon>>))
                                /\ pc' = "celnav"
                                /\ UNCHANGED <<objects, responses>>
                           ELSE AfterCelnav(f.data, time, <<>>)
  /\ UNCHANGED <<clock, ticks, locationQuery, geocodeResult, date>>
  /\ UNCHANGED <<sunCalls, chatVars, celnavMaps, winVars, hourCycle>>

\* GET, from the celestial-navigation answer to the next-day fetch or to
\* the response (astronomy.ts 153-169 and 453-495)
CelnavDone(o) ==
  /\ pc = "celnav"
  /\ io' = [io EXCEPT !.celnav = o]
  /\ AfterCelnav(astronomyData, currentTime, fetchCelnavData(o))
  /\ UNCHANGED <<clock, ticks, locationQuery, geocodeResult, date, astronomyData,
                 mapNow, currentTime>>
  /\ UNCHANGED <<sunCalls, chatVars, celnavMaps, winVars, hourCycle>>

\* GET, from the next-day answer to the response
\* (astronomy.ts 495-572, route.ts 166-183)
TomorrowDone(o) ==
  /\ pc = "tomorrow"
  /\ io' = [io EXCEPT !.tomorrow = o]
  /\ LET sunRiseEvent == FindEvent(astronomyData.sundata[1], "Rise")[1]
         sunSetEvent == FindEvent(astronomyData.sundata[1], "Set")[1]
         nextSunrise == NextSunrise(o, NextDay(date))
         sun == SunObject(clock, date, sunRiseEvent, sunSetEvent, nextSunrise, hourCycle) IN
     Finish(objects \o <<sun>> \o MoonObjects(clock, astronomyData, date, hourCycle))
  /\ UNCHANGED <<clock, ticks, locationQuery, geocodeResult, date, astronomyData,
                 mapNow, currentTime, calls>>
  /\ UNCHANGED <<sunCalls, chatVars, celnavMaps, winVars, hourCycle>>

\* time passes while the handler awaits a collaborator
Tick(step) ==
  /\ pc \in {"geocode", "primary", "celnav", "tomorrow"}
  /\ ticks < MaxTicks
  /\ clock' = clock + step
  /\ ticks' = ticks + 1
  /\ UNCHANGED <<pc, locationQuery, geocodeResult, date, astronomyData, mapNow,
                 currentTime, objects, calls, io, responses>>
  /\ UNCHANGED <<sunCalls, chatVars, celnavMaps, winVars, hourCycle>>

Next ==
  \/ \E param \in LocationParams : GET(param)
  \/ \E o \in GeocodeOutcomes : GeocodeDone(o)
  \/ \E o \in PrimaryOutcomes : PrimaryDone(o)
  \/ \E o \in CelnavOutcomes : CelnavDone(o)
  \/ \E o \in TomorrowOutcomes : TomorrowDone(o)
  \/ \E step \in ClockSteps : Tick(step)

Spec == Init /\ [][Next]_vars

\* ------------------------------------- the celestial-navigation mapping alone
\* the one call of mapCelnavObjectsToSkyObjects(celnavData, date, time) of a run
MapCelnav(celnavData, d, time) ==
  /\ celnavMaps = <<>>
  /\ celnavMaps' =
       <<[celnavData |-> celnavData, date |-> d, time |-> time,
          result |-> mapCelnavObjectsToSkyObjects(celnavData, d, time)]>>
  /\ UNCHANGED <<skyVars, clock, ticks, sunCalls, chatVars, winVars, hourCycle>>

\* a run makes one call, with any of the bodies, dates and times
CelnavNext ==
  /\ celnavMaps = <<>>
  /\ \E celnavData \in MapBodies, d \in MapDates, time \in MapTimes :
       MapCelnav(celnavData, d, time)

CelnavSpec == Init /\ [][CelnavNext]_vars

\* ------------------------------------------- the sun-visibility rule alone
\* Calls of getSunVisibility at the instants the clock passes through.
SunDate == <<2024, 2, 28>>

\* (sunset, nextSunrise) argument pairs: a sunset before and one at a clock
\* instant, a next sunrise absent, ahead, at a clock instant, and
\* date strings that do not parse
SunArgs == {
  [sunset |-> timeToISO(SunDate, <<15, 42>>), nextSunrise |-> <<>>],
  [sunset |-> timeToISO(SunDate, <<21, 0>>), nextSunrise |-> <<>>],
  [sunset |-> timeToISO(SunDate, <<15, 42>>),
   nextSunrise |-> <<timeToISO(NextDay(SunDate), <<8, 0>>)>>],
  [sunset |-> timeToISO(SunDate, <<21, 0>>),
   nextSunrise |-> <<timeToISO(NextDay(SunDate), <<6, 35>>)>>],
  [sunset |-> timeToISO(SunDate, <<25, 0>>), nextSunrise |-> <<>>],
  [sunset |-> timeToISO(SunDate, <<24, 0>>), nextSunrise |-> <<>>],
  [sunset |-> timeToISO(SunDate, <<15, 42>>),
   nextSunrise |-> <<timeToISO(NextDay(SunDate), <<6, 99>>)>>] }

\* getSunVisibility(sunset, nextSunrise): `const now = new Date()` reads the clock
InvokeSunVisibility(sunset, nextSunrise) ==
  getSunVisibility(clock, sunset, nextSunrise)

\* one call of the rule
CallSunVisibility(args) ==
  /\ Len(sunCalls) < MaxSunCalls
  /\ sunCalls' = Append(sunCalls,
       [now |-> clock, sunset |-> args.sunset, nextSunrise |-> args.nextSunrise,
        result |-> InvokeSunVisibility(args.sunset, args.nextSunrise)])
  /\ UNCHANGED <<skyVars, clock, ticks, chatVars, celnavMaps, winVars, hourCycle>>

\* time passes between two calls
Advance(step) ==
  /\ ticks < MaxTicks
  /\ clock' = clock + step
  /\ ticks' = ticks + 1
  /\ UNCHANGED <<skyVars, sunCalls, chatVars, celnavMaps, winVars, hourCycle>>

SunNext ==
  \/ \E args \in SunArgs : CallSunVisibility(args)
  \/ \E step \in ClockSteps : Advance(step)

SunSpec == Init /\ [][SunNext]_vars

\* ------------------------------------------------- the chat endpoint
\* src/src/app/api/stella-chat/route.ts (POST, lines 1-146) and
\* src/src/lib/stella/callStellaModel.ts.
\*
\* A JSON scalar is [t, s]: t is "string" (s its characters), "number" or
\* "null".  A field an object lacks is <<>>, a field it has is <<value>>.
JString(chars) == [t |-> "string", s |-> chars]
JNumber == [t |-> "number", s |-> <<>>]
JNull == [t |-> "null", s |-> <<>>]

\* !v for an optional scalar: undefined, null and "" are falsy
\* (the numbers used here are non-zero)
Falsy(field) ==
  \/ field = <<>>
  \/ field[1].t = "null"
  \/ field[1].t = "string" /\ field[1].s = <<>>

\* !v || typeof v !== "string" || v.trim() === ""
NotNonEmptyString(field) ==
  Falsy(field) \/ field[1].t # "string" \/ trim(field[1].s) = <<>>

Digits == {"0", "1", "2", "3", "4", "5", "6", "7", "8", "9"}

\* /^\d{4}-\d{2}-\d{2}$/.test(chars)
dateRegex(chars) ==
  /\ Len(chars) = 10
  /\ \A i \in {1, 2, 3, 4, 6, 7, 9, 10} : chars[i] \in Digits
  /\ chars[5] = "-"
  /\ chars[8] = "-"

\* An array field is [t, items]: t is "array", or "number" for a value
\* that is not an array (items is then empty).
JArray(items) == [t |-> "array", items |-> items]
NotAnArray == [t |-> "number", items |-> <<>>]

\* Array.isArray(v) for an optional array field
IsArray(field) == field # <<>> /\ field[1].t = "array"

\* One entry of body.objects: a JSON object with optional id and
\* visibility, or the JSON value null.
ChatObject(id, visibility) == [t |-> "object", id |-> id, visibility |-> visibility]
NullObject == [t |-> "null", id |-> <<>>, visibility |-> <<>>]

\* One entry of body.messages: a JSON object with optional role and
\* content, a number, or the JSON value null.
ChatMessage(role, content) == [t |-> "object", role |-> role, content |-> content]
NumberMessage == [t |-> "number", role |-> <<>>, content |-> <<>>]
NullMessage == [t |-> "null", role |-> <<>>, content |-> <<>>]

\* What request.json() gives: kind is "unparseable" (it rejects), "null",
\* "number" (a JSON value without properties) or "object".
ChatBody(kind, location, d, objs, msgs) ==
  [kind |-> kind, location |-> location, date |-> d, objects |-> objs,
   messages |-> msgs]

Hello == JString(<<"H", "i">>)
Blank == JString(<<"\n", " ">>)

ChatLocations == { <<>>, <<Blank>>, <<JNumber>>, <<JString(<<"D", "C">>)>> }

ChatDates ==
  { <<>>, <<JNumber>>,
    <<JString(<<"2","0","2","4","-","2","-","2","8">>)>>,
    <<JString(<<"2","0","2","4","-","0","2","-","2","8">>)>> }

ChatObjectLists ==
  { <<>>, <<NotAnArray>>, <<JArray(<<>>)>>,
    <<JArray(<< ChatObject(<< <<"s","u","n">> >>, <<"poor">>) >>)>>,
    <<JArray(<< ChatObject(<< <<"s","u","n">> >>, <<"poor">>),
                ChatObject(<< <<"m","a","r","s">> >>, <<"good">>),
                ChatObject(<< <<"m","o","o","n">> >>, <<"good">>) >>)>>,
    <<JArray(<< ChatObject(<< <<>> >>, <<"good">>),
                ChatObject(<< <<"m","a","r","s">> >>, <<"good">>) >>)>>,
    <<JArray(<< ChatObject(<<>>, <<"good">>) >>)>>,
    <<JArray(<< NullObject >>)>> }

ChatMessageLists ==
  { <<>>, <<NotAnArray>>, <<JArray(<<>>)>>,
    <<JArray(<< ChatMessage(<<"user">>, <<Hello>>) >>)>>,
    <<JArray(<< ChatMessage(<<"assistant">>, <<Hello>>),
                ChatMessage(<<"user">>, <<Hello>>) >>)>>,
    <<JArray(<< ChatMessage(<<"assistant">>, <<Hello>>) >>)>>,
    <<JArray(<< ChatMessage(<<"assistant">>, <<Blank>>),
                ChatMessage(<<"system">>, <<Hello>>) >>)>>,
    <<JArray(<< ChatMessage(<<"user">>, <<Blank>>),
                ChatMessage(<<"system">>, <<Hello>>) >>)>>,
    <<JArray(<< ChatMessage(<<"system">>, <<>>),
                ChatMessage(<<"user">>, <<JNumber>>) >>)>>,
    <<JArray(<< NumberMessage, ChatMessage(<<"user">>, <<Hello>>) >>)>>,
    <<JArray(<< ChatMessage(<<"user">>, <<Hello>>), NullMessage >>)>>,
    <<JArray(<< NullMessage >>)>> }

ChatBodies ==
  { ChatBody("unparseable", <<>>, <<>>, <<>>, <<>>),
    ChatBody("null", <<>>, <<>>, <<>>, <<>>),
    ChatBody("number", <<>>, <<>>, <<>>, <<>>) }
  \cup { ChatBody("object", location, d, objs, msgs) :
           location \in ChatLocations, d \in ChatDates,
           objs \in ChatObjectLists, msgs \in ChatMessageLists }

\* `${i}` for the indices used here (JavaScript counts from 0)
IndexText(i) == <<"0", "1", "2">>[i]

\* body.messages.some(msg => msg.role === "user"): "true", "false", or
\* "throw" when an entry read before a match is null
RECURSIVE hasUserMessage(_)
hasUserMessage(items) ==
  IF items = <<>> THEN "false"
  ELSE IF Head(items).t = "null" THEN "throw"
  ELSE IF Head(items).role = <<"user">> THEN "true"
  ELSE hasUserMessage(Tail(items))

\* The loop of validateRequest over body.messages from entry i on:
\* [kind, error], kind "none" when every entry passes.
RECURSIVE ValidateMessages(_, _)
ValidateMessages(items, i) ==
  IF i > Len(items) THEN [kind |-> "none", error |-> <<>>]
  ELSE LET msg == items[i] IN
       IF msg.t = "null"
         THEN [kind |-> "throw",
               error |-> <<"Cannot read properties of null (reading 'role')">>]
       ELSE IF msg.role = <<>> \/ msg.role \notin {<<"user">>, <<"assistant">>}
         THEN [kind |-> "error",
               error |-> <<"messages[", IndexText(i),
                           "].role must be either \"user\" or \"assistant\"">>]
       ELSE IF NotNonEmptyString(msg.content)
         THEN [kind |-> "error",
               error |-> <<"messages[", IndexText(i),
                           "].content must be a non-empty string">>]
       ELSE ValidateMessages(items, i + 1)

Invalid(text) == [threw |-> FALSE, valid |-> FALSE, error |-> <<text>>]

\* validateRequest(body): [threw, valid, error]; threw when reading a
\* property of null raises a TypeError (error is then its message)
validateRequest(b) ==
  IF b.kind = "null"
    THEN [threw |-> TRUE, valid |-> FALSE,
          error |-> <<"Cannot read properties of null (reading 'location')">>]
  ELSE IF NotNonEmptyString(b.location)
    THEN Invalid("location is required and must be a non-empty string")
  ELSE IF Falsy(b.date) \/ b.date[1].t # "string"
    THEN Invalid("date is required and must be a string")
  ELSE IF ~dateRegex(b.date[1].s)
    THEN Invalid("date must be a valid ISO date (YYYY-MM-DD)")
  ELSE IF ~IsArray(b.objects)
    THEN Invalid("objects is required and must be an array")
  ELSE IF Len(b.objects[1].items) = 0
    THEN Invalid("objects array must contain at least one object")
  ELSE IF ~IsArray(b.messages)
    THEN Invalid("messages is required and must be an array")
  ELSE IF Len(b.messages[1].items) = 0
    THEN Invalid("messages array must contain at least one message")
  ELSE LET some == hasUserMessage(b.messages[1].items) IN
       IF some = "throw"
         THEN [threw |-> TRUE, valid |-> FALSE,
               error |-> <<"Cannot read properties of null (reading 'role')">>]
       ELSE IF some = "false"
         THEN Invalid("messages array must contain at least one message with role 'user'")
       ELSE LET each == ValidateMessages(b.messages[1].items, 1) IN
            IF each.kind = "throw"
              THEN [threw |-> TRUE, valid |-> FALSE, error |-> each.error]
            ELSE IF each.kind = "error"
              THEN [threw |-> FALSE, valid |-> FALSE, error |-> each.error]
            ELSE [threw |-> FALSE, valid |-> TRUE, error |-> <<>>]

\* findSuggestedObjectId(objects): [threw, id]; id is <<>> for undefined.
\* objects.find reads obj.visibility of each entry up to the first match.
RECURSIVE findSuggestedObjectId(_)
findSuggestedObjectId(objs) ==
  IF objs = <<>> THEN [threw |-> FALSE, id |-> <<>>]
  ELSE IF Head(objs).t = "null" THEN [threw |-> TRUE, id |-> <<>>]
  ELSE IF Head(objs).visibility = <<"good">> THEN [threw |-> FALSE, id |-> Head(objs).id]
  ELSE findSuggestedObjectId(Tail(objs))

\* process.env.OPENAI_API_KEY
ApiKeys == { <<>>, <<"sk-test">> }

\* What the completion service can answer.  A parsed body has shape "null"
\* (the JSON value null), "nochoices" (an object without choices) or
\* "content" (choices[0].message.content is the scalar content).
ModelOutcome(kind, status, text, shape, content) ==
  [kind |-> kind, status |-> status, text |-> text, shape |-> shape,
   content |-> content]

ModelOutcomes ==
  { ModelOutcome("reject", "", "fetch failed", "null", JNull),
    ModelOutcome("notok", "429", "rate limited", "null", JNull),
    ModelOutcome("notok", "500", "", "null", JNull),
    ModelOutcome("badjson", "200", "Unexpected token < in JSON at position 0", "null", JNull),
    ModelOutcome("ok", "200", "", "null", JNull),
    ModelOutcome("ok", "200", "", "nochoices", JNull),
    ModelOutcome("ok", "200", "", "content", JString(<<" ", "M", "a", "r", "s", "\n">>)),
    ModelOutcome("ok", "200", "", "content", Blank),
    ModelOutcome("ok", "200", "", "content", JString(<<>>)),
    ModelOutcome("ok", "200", "", "content", JNull),
    ModelOutcome("ok", "200", "", "content", JNumber) }

\* callStellaModel up to its fetch (callStellaModel.ts 54-92):
\* [threw, message].  buildContextFromRequest reads obj.name of every entry.
callStellaModelStart(req) ==
  IF apiKey = <<>>
    THEN [threw |-> TRUE, message |-> <<"Missing OPENAI_API_KEY">>]
  ELSE IF \E i \in 1..Len(req.objects[1].items) : req.objects[1].items[i].t = "null"
    THEN [threw |-> TRUE,
          message |-> <<"Cannot read properties of null (reading 'name')">>]
  ELSE [threw |-> FALSE, message |-> <<>>]

\* callStellaModel from the answer of its fetch on, without the
\* `|| "Sorry, ..."` default of the reply
callStellaModelEnd_NoDefault(o) ==
  IF o.kind \in {"reject", "badjson"}
    THEN [threw |-> TRUE, message |-> <<o.text>>, reply |-> <<>>]
  ELSE IF o.kind = "notok"
    THEN [threw |-> TRUE, message |-> <<"Model error: ", o.status, " ", o.text>>,
          reply |-> <<>>]
  ELSE IF o.shape = "null" \/ (o.shape = "content" /\ o.content.t = "number")
    THEN [threw |-> TRUE, message |-> <<"TypeError">>, reply |-> <<>>]
  ELSE IF o.shape = "content" /\ o.content.t = "string"
    THEN [threw |-> FALSE, message |-> <<>>, reply |-> trim(o.content.s)]
  ELSE [threw |-> FALSE, message |-> <<>>, reply |-> <<>>]

\* callStellaModel from the answer of its fetch on (callStellaModel.ts
\* 94-104): [threw, message, reply]
callStellaModelEnd(o) ==
  IF o.kind = "reject"
    THEN [threw |-> TRUE, message |-> <<o.text>>, reply |-> <<>>]
  ELSE IF o.kind = "notok"
    THEN [threw |-> TRUE, message |-> <<"Model error: ", o.status, " ", o.text>>,
          reply |-> <<>>]
  ELSE IF o.kind = "badjson"
    THEN [threw |-> TRUE, message |-> <<o.text>>, reply |-> <<>>]
  ELSE IF o.shape = "null"
    THEN [threw |-> TRUE,
          message |-> <<"Cannot read properties of null (reading 'choices')">>,
          reply |-> <<>>]
  ELSE IF o.shape = "content" /\ o.content.t = "number"
    THEN [threw |-> TRUE,
          message |-> <<"json.choices?.[0]?.message?.content?.trim is not a function">>,
          reply |-> <<>>]
  ELSE IF o.shape = "content" /\ o.content.t = "string" /\ trim(o.content.s) # <<>>
    THEN [threw |-> FALSE, message |-> <<>>, reply |-> trim(o.content.s)]
  ELSE [threw |-> FALSE, message |-> <<>>,
        reply |-> <<"Sorry, I couldn't think of a good answer just now.">>]

ChatError(status, code, message) ==
  [status |-> status, body |-> [error |-> [code |-> code, message |-> message]]]

\* route.ts 128-135: meta is <<>> when the spread leaves it out
ChatSuccess(reply, suggestedObjectId) ==
  [status |-> 200,
   body |-> [reply |-> reply,
             meta |-> IF suggestedObjectId # <<>> /\ suggestedObjectId[1] # <<>>
                        THEN <<[suggestedObjectId |-> suggestedObjectId[1]]>>
                        ELSE <<>>]]

\* return NextResponse.json(...)
ChatRespond(r) ==
  /\ chatResponses' = Append(chatResponses, r)
  /\ chatPc' = "done"

\* the catch of route.ts 117-126 answering as the outermost catch does
ModelFailed_Internal(message) ==
  ChatRespond(ChatError(500, "INTERNAL_ERROR", message))

\* route.ts 117-126: callStellaModel raised
ModelFailed(message) ==
  ChatRespond(ChatError(502, "MODEL_ERROR", message))

ChatInit ==
  /\ SkyIdle
  /\ clock \in StartInstants
  /\ ticks = 0
  /\ sunCalls = <<>>
  /\ celnavMaps = <<>>
  /\ WindowClosed
  /\ hourCycle \in HourCycles
  /\ chatPc = "idle"
  /\ apiKey \in ApiKeys
  /\ body = NoOutcome
  /\ modelCalls = <<>>
  /\ modelIo = NoOutcome
  /\ chatResponses = <<>>

\* POST, from the request to the completion fetch (route.ts 76-116,
\* callStellaModel.ts 54-92)
POST(b) ==
  /\ chatPc = "idle"
  /\ body' = b
  /\ IF b.kind = "unparseable"
       THEN /\ ChatRespond(ChatError(400, "BAD_REQUEST", <<"Invalid JSON in request body">>))
            /\ UNCHANGED modelCalls
       ELSE LET validation == validateRequest(b) IN
            IF validation.threw
              THEN /\ ChatRespond(ChatError(500, "INTERNAL_ERROR", validation.error))
                   /\ UNCHANGED modelCalls
            ELSE IF ~validation.valid
              THEN /\ ChatRespond(ChatError(400, "BAD_REQUEST", validation.error))
                   /\ UNCHANGED modelCalls
            ELSE /\ modelCalls' = Append(modelCalls, b)
                 /\ LET started == callStellaModelStart(b) IN
                    IF started.threw
                      THEN ModelFailed(started.message)
                      ELSE /\ chatPc' = "model"
                           /\ UNCHANGED chatResponses
  /\ UNCHANGED <<skyVars, clock, ticks, sunCalls, celnavMaps, winVars, apiKey, modelIo, hourCycle>>

\* POST, from the answer of the completion fetch to the response
\* (callStellaModel.ts 94-104, route.ts 117-145)
ModelDone(o) ==
  /\ chatPc = "model"
  /\ modelIo' = o
  /\ LET ended == callStellaModelEnd(o)
         suggested == findSuggestedObjectId(body.objects[1].items) IN
     IF ended.threw THEN ModelFailed(ended.message)
     ELSE IF suggested.threw
       THEN ChatRespond(ChatError(500, "INTERNAL_ERROR",
              <<"Cannot read properties of null (reading 'visibility')">>))
     ELSE ChatRespond(ChatSuccess(ended.reply, suggested.id))
  /\ UNCHANGED <<skyVars, clock, ticks, sunCalls, celnavMaps, winVars, apiKey, body, modelCalls, hourCycle>>

ChatNext ==
  \/ \E b \in ChatBodies : POST(b)
  \/ \E o \in ModelOutcomes : ModelDone(o)

ChatSpec == ChatInit /\ [][ChatNext]_vars

\* ------------------------------------------------------ the chat window
\* What the user can leave in the input field.
WindowInputs ==
  { <<>>, <<" ">>, <<"h", "i">>, <<" ", "u", "p", "?", " ">> }

\* What the chat request of handleSubmit can produce: a 2xx answer with a
\* reply, an error answer with its message, a fetch that rejects.
WindowOutcomes ==
  { [kind |-> "ok", text |-> "Look east after dusk."],
    [kind |-> "notok", text |-> "Failed to get response from Stella: timeout"],
    [kind |-> "reject", text |-> "Failed to fetch"] }

UserMessage(content) == [role |-> "user", content |-> content]

\* the assistant message that handleSubmit appends for an outcome
AssistantMessage(o) ==
  [role |-> "assistant",
   content |-> IF o.kind = "ok" THEN <<o.text>>
               ELSE <<"Sorry, I encountered an error: ", o.text, ". Please try again!">>]

\* What the user can leave in the page's location field, and what the
\* sky-objects request of the page can produce.
PageLocations == { <<>>, <<" ">>, <<"D", "C">> }
PageOutcomes == { "ok", "notok", "reject" }

\* The reset of lines 41-53 is a passive effect.  It runs after the render
\* that has isOpen set is committed, and its setMessages and setInput are
\* queued at default priority; until a render applies them the window
\* shows the state it had, and its handlers close over that state.
\* pendingReset is "effect" while the effect has yet to run (after a mount
\* that the page's fetch continuation committed), "updates" while its two
\* updates are queued, and "none" otherwise.
\*
\* The render of an event handler applies the pending reset with the
\* handler's own updates (react 19.2.0 renders default-priority updates
\* with those of a discrete event).  Updates of one state apply in the
\* order they were queued: queued reset updates come before the handler's,
\* and an effect that has yet to run is flushed before the render and
\* queues behind the handler's.

\* a state that a render leaves to the pending reset
Rendered(old, reset) == IF pendingReset # "none" THEN reset ELSE old

\* a state that the handler sets to value in that render
RenderedAfterSet(value, reset) == IF pendingReset = "effect" THEN reset ELSE value

\* After its await handleSubmit (88-116) only queues setMessages and
\* setIsLoading(false), at default priority; answered holds the queued
\* list until a render applies it: the render of the Scheduler task, or
\* that of an event handler which comes first.  Of a queued answer and a
\* pending reset the one queued last stands.
RenderedMessages ==
  IF answered # <<>> /\ pendingReset # "effect" THEN answered[1]
  ELSE Rendered(messages, <<Greeting>>)

RenderedIsLoading == IF answered # <<>> THEN FALSE ELSE isLoading

\* SolsticeSkyViewer.handleSubmit up to its await (the form is disabled
\* while state is "loading").  The page renders the chat window only while
\* state is "success": leaving it unmounts the window, whose state is lost
\* and whose awaited request no longer reaches any window.  The page's
\* isChatOpen is left as it is.
PageHandleSubmit(location) ==
  /\ state # "loading"
  /\ state' = IF trim(location) = <<>> THEN "error" ELSE "loading"
  /\ messages' = <<Greeting>>
  /\ input' = <<>>
  /\ isLoading' = FALSE
  /\ inFlight' = <<>>
  /\ answered' = <<>>
  /\ pendingReset' = "none"
  /\ UNCHANGED isOpen
  /\ UNCHANGED <<skyVars, clock, ticks, sunCalls, chatVars, celnavMaps, hourCycle>>

\* SolsticeSkyViewer.handleSubmit from the answer of its request on.  With
\* "success" a new chat window is mounted with its useState values; when
\* isChatOpen is still set its reset effect is scheduled.
PageHandleSubmitDone(o) ==
  /\ state = "loading"
  /\ state' = IF o = "ok" THEN "success" ELSE "error"
  /\ pendingReset' = IF o = "ok" /\ isOpen THEN "effect" ELSE "none"
  /\ UNCHANGED <<isOpen, messages, input, isLoading, inFlight, answered>>
  /\ UNCHANGED <<skyVars, clock, ticks, sunCalls, chatVars, celnavMaps, hourCycle>>

\* the click on Stella: the page sets isChatOpen (the button is rendered
\* while state is "success").  The window is rendered open with the
\* messages and the input it had, and with a queued answer applied; the
\* effect on [isOpen] runs with the commit of the click and queues the
\* reset.
Open ==
  /\ state = "success"
  /\ ~isOpen
  /\ isOpen' = TRUE
  /\ messages' = RenderedMessages
  /\ input' = Rendered(input, <<>>)
  /\ isLoading' = RenderedIsLoading
  /\ answered' = <<>>
  /\ pendingReset' = "updates"
  /\ UNCHANGED <<inFlight, state>>
  /\ UNCHANGED <<skyVars, clock, ticks, sunCalls, chatVars, celnavMaps, hourCycle>>

\* the render of the Scheduler task that applies the queued setMessages
\* and setInput of the reset effect when nothing else is queued (after the
\* effect has run, when it had yet to)
ResetOnOpen ==
  /\ state = "success"
  /\ pendingReset # "none"
  /\ answered = <<>>
  /\ messages' = <<Greeting>>
  /\ input' = <<>>
  /\ pendingReset' = "none"
  /\ UNCHANGED <<isOpen, isLoading, inFlight, state, answered>>
  /\ UNCHANGED <<skyVars, clock, ticks, sunCalls, chatVars, celnavMaps, hourCycle>>

\* onClose (the backdrop or the close button): the page clears isChatOpen;
\* the window stays mounted, and the render applies a queued answer and a
\* pending reset
Close ==
  /\ state = "success"
  /\ isOpen
  /\ isOpen' = FALSE
  /\ messages' = RenderedMessages
  /\ input' = Rendered(input, <<>>)
  /\ isLoading' = RenderedIsLoading
  /\ answered' = <<>>
  /\ pendingReset' = "none"
  /\ UNCHANGED <<inFlight, state>>
  /\ UNCHANGED <<skyVars, clock, ticks, sunCalls, chatVars, celnavMaps, hourCycle>>

\* onChange of the input field, which is disabled while isLoading is set
\* and fires when the value of the field changes; the render applies a
\* pending reset
SetInput(text) ==
  /\ state = "success"
  /\ isOpen /\ ~isLoading
  /\ text # input
  /\ input' = RenderedAfterSet(text, <<>>)
  /\ messages' = RenderedMessages
  /\ isLoading' = RenderedIsLoading
  /\ answered' = <<>>
  /\ pendingReset' = "none"
  /\ UNCHANGED <<isOpen, inFlight, state>>
  /\ UNCHANGED <<skyVars, clock, ticks, sunCalls, chatVars, celnavMaps, hourCycle>>

\* handleSubmit up to its await, for a conversation of at most MaxTurns
\* turns: it reads the input and the messages of the render it belongs to.
\* When it returns early it sets nothing and no render follows.
handleSubmit ==
  /\ state = "success"
  /\ isOpen
  /\ Len(messages) + 2 <= 1 + 2 * MaxTurns
  /\ IF trim(input) = <<>> \/ isLoading
       THEN UNCHANGED <<messages, input, isLoading, inFlight, answered, pendingReset>>
       ELSE LET userMessage == UserMessage(trim(input))
                newMessages == Append(messages, userMessage) IN
            /\ messages' = RenderedAfterSet(newMessages, <<Greeting>>)
            /\ input' = <<>>
            /\ isLoading' = TRUE
            /\ inFlight' = <<newMessages>>
            /\ answered' = <<>>
            /\ pendingReset' = "none"
  /\ UNCHANGED <<isOpen, state>>
  /\ UNCHANGED <<skyVars, clock, ticks, sunCalls, chatVars, celnavMaps, hourCycle>>

\* handleSubmit from the answer of its request to its end (88-116): the
\* request is no longer awaited, and setMessages and setIsLoading(false)
\* are queued
handleSubmitDone(o) ==
  /\ state = "success"
  /\ inFlight # <<>>
  /\ answered' = <<Append(inFlight[1], AssistantMessage(o))>>
  /\ inFlight' = <<>>
  /\ UNCHANGED <<isOpen, messages, input, isLoading, state, pendingReset>>
  /\ UNCHANGED <<skyVars, clock, ticks, sunCalls, chatVars, celnavMaps, hourCycle>>

\* the render of the Scheduler task that applies the queued answer, and
\* with it a pending reset
RenderAnswer ==
  /\ state = "success"
  /\ answered # <<>>
  /\ messages' = RenderedMessages
  /\ input' = Rendered(input, <<>>)
  /\ isLoading' = FALSE
  /\ answered' = <<>>
  /\ pendingReset' = "none"
  /\ UNCHANGED <<isOpen, inFlight, state>>
  /\ UNCHANGED <<skyVars, clock, ticks, sunCalls, chatVars, celnavMaps, hourCycle>>

WindowNext ==
  \/ \E location \in PageLocations : PageHandleSubmit(location)
  \/ \E o \in PageOutcomes : PageHandleSubmitDone(o)
  \/ Open
  \/ ResetOnOpen
  \/ Close
  \/ \E text \in WindowInputs : SetInput(text)
  \/ handleSubmit
  \/ \E o \in WindowOutcomes : handleSubmitDone(o)
  \/ RenderAnswer

WindowSpec == Init /\ [][WindowNext]_vars

\* =================================================================
\* Properties
\* =================================================================
Done == pc = "done"
Response == responses[1]
IsSuccessBody(r) == DOMAIN r.body = {"location", "date", "objects"}
IsErrorBody(r) == DOMAIN r.body = {"error"} /\ DOMAIN r.body.error = {"code", "message"}
HasError(r, status, code) ==
  /\ r.status = status
  /\ IsErrorBody(r)
  /\ r.body.error.code = code
Contains(seq, x) == \E i \in 1..Len(seq) : seq[i] = x
ApisCalled == [i \in 1..Len(calls) |-> calls[i].api]

\* the objects of a response whose id is the given one
WithId(objs, id) == SelectSeq(objs, LAMBDA ob : ob.id = id)

\* what the collaborators answered, read from the record of the answers
GeocodeSucceeded == io.geocode.kind = "ok"
GeocodeFailed == io.geocode.kind \notin {"none", "ok"}
PrimarySucceeded == io.primary.kind = "ok"
PrimaryFailed == io.primary.kind \in {"reject", "notok", "badjson"}

\* the payload has the event with this label in the given optional array
HasEvent(optArray, phen) ==
  optArray # <<>> /\ \E i \in 1..Len(optArray[1]) : optArray[1][i].phen = phen
SunPair(data) == HasEvent(data.sundata, "Rise") /\ HasEvent(data.sundata, "Set")
MoonPair(data) == HasEvent(data.moondata, "Rise") /\ HasEvent(data.moondata, "Set")

\* the entries of the celestial-navigation answer that pass the filter
CelnavKept ==
  IF io.celnav.kind = "ok" /\ io.celnav.body.shape = "array"
    THEN SelectSeq(io.celnav.body.items, LAMBDA item : ~CelnavSkipped(item))
    ELSE <<>>

\* mapping the fetched payloads raises: the primary body lacks geometry or
\* sundata, or a kept celestial-navigation entry lacks almanac_data
MappingRaises ==
  /\ PrimarySucceeded
  /\ \/ io.primary.body.geometry = <<>>
     \/ io.primary.body.sundata = <<>>
     \/ \E i \in 1..Len(CelnavKept) : CelnavKept[i].almanac_data = <<>>

\* the mapping completes and produces no object at all
MappingYieldsNothing ==
  /\ PrimarySucceeded
  /\ ~MappingRaises
  /\ CelnavKept = <<>>
  /\ ~SunPair(io.primary.body)
  /\ ~MoonPair(io.primary.body)

GoodObjects(r) ==
  /\ Len(r.body.objects) >= 1
  /\ \A i \in 1..Len(r.body.objects) :
       /\ r.body.objects[i].type \in {"star", "planet", "constellation", "other"}
       /\ r.body.objects[i].visibility \in {"good", "ok", "poor"}
  /\ IsYMD(r.body.date)

\* C1 (as stated): whenever the location is non-blank, geocoding succeeds and
\* the primary fetch returns a parsed payload, the response is 200 with at
\* least one object, valid types and visibilities and a YYYY-MM-DD date.
\* Stated here for the requests whose mapping does not raise only, which the
\* claim covers a fortiori.
C1_Original ==
  (Done /\ GeocodeSucceeded /\ PrimarySucceeded /\ ~MappingRaises)
    => (Response.status = 200 /\ IsSuccessBody(Response) /\ GoodObjects(Response))

\* C1 (amended): under the same conditions the response is 200 exactly when
\* the mapping completes without raising and yields at least one object, and
\* that response has at least one object, valid types and visibilities and a
\* YYYY-MM-DD date; otherwise the response is 500 UPSTREAM_ERROR.
C1_SuccessWhenObjects ==
  (Done /\ GeocodeSucceeded /\ PrimarySucceeded)
    => IF MappingRaises \/ MappingYieldsNothing
         THEN HasError(Response, 500, "UPSTREAM_ERROR")
         ELSE Response.status = 200 /\ IsSuccessBody(Response) /\ GoodObjects(Response)

C1_Witness ==
  /\ Done /\ GeocodeSucceeded /\ PrimarySucceeded
  /\ Response.status = 200
  /\ Len(Response.body.objects) = 3
  /\ Response.body.objects[1].type = "planet"

\* the location parameter is absent, or has no character other than whitespace
LocationAbsentOrBlank ==
  \/ locationQuery = <<>>
  \/ \A i \in 1..Len(locationQuery[1]) : locationQuery[1][i] \in Whitespace

\* C2: a request whose location is absent, empty or whitespace-only is
\* answered at once with 400 INVALID_LOCATION, and no collaborator is called.
C2_BlankLocationRejected ==
  (pc # "idle" /\ LocationAbsentOrBlank)
    => /\ Done
       /\ Len(responses) = 1
       /\ HasError(Response, 400, "INVALID_LOCATION")
       /\ calls = <<>>

C2_Witness ==
  /\ Done
  /\ locationQuery = << <<"\t", "\n">> >>
  /\ HasError(Response, 400, "INVALID_LOCATION")

\* the text of the failure the geocoder met
GeocodeFailureText(o) ==
  IF o.kind \in {"noresults", "emptyresults"} THEN "No location found" ELSE o.text

\* C3: when geocoding fails the response is 400 INVALID_LOCATION, its message
\* contains the text of the underlying failure, and the only collaborator
\* call of the request is the geocoding one.
C3_GeocodeFailure ==
  (Done /\ GeocodeFailed)
    => /\ HasError(Response, 400, "INVALID_LOCATION")
       /\ Contains(Response.body.error.message, GeocodeFailureText(io.geocode))
       /\ ApisCalled = <<"geocode">>

C3_Witness ==
  /\ Done
  /\ io.geocode.kind = "notok"
  /\ Contains(Response.body.error.message, "Too Many Requests")

\* C4: when geocoding succeeds and the primary fetch fails, or mapping the
\* fetched payload raises, the response is 500 UPSTREAM_ERROR.
C4_UpstreamError ==
  (Done /\ GeocodeSucceeded /\ (PrimaryFailed \/ MappingRaises))
    => HasError(Response, 500, "UPSTREAM_ERROR")

C4_Witness ==
  /\ Done /\ GeocodeSucceeded
  /\ io.primary.kind = "notok"
  /\ HasError(Response, 500, "UPSTREAM_ERROR")

\* C5: no 200 response has an empty objects list; when the mapping yields no
\* object the response is 500 UPSTREAM_ERROR.
C5_NoEmptySuccess ==
  /\ (Done /\ Response.status = 200) => Len(Response.body.objects) >= 1
  /\ (Done /\ MappingYieldsNothing) => HasError(Response, 500, "UPSTREAM_ERROR")

C5_Witness ==
  /\ Done
  /\ MappingYieldsNothing
  /\ Response.body.error.message = <<"No astronomy data available.">>

\* C6: a request is answered exactly once; the answer is a success body with
\* status 200 or an error body with status 400 or 500; 400 goes with
\* INVALID_LOCATION only, 500 with UPSTREAM_ERROR or UNKNOWN only.
C6_OneResponse ==
  /\ Len(responses) = (IF Done THEN 1 ELSE 0)
  /\ Done =>
       /\ Response.status \in {200, 400, 500}
       /\ IsSuccessBody(Response) # IsErrorBody(Response)
       /\ Response.status = 200 <=> IsSuccessBody(Response)
       /\ Response.status = 400 => Response.body.error.code = "INVALID_LOCATION"
       /\ Response.status = 500 => Response.body.error.code \in {"UPSTREAM_ERROR", "UNKNOWN"}

C6_Witness ==
  /\ Done
  /\ GeocodeFailed
  /\ Response.status = 400
  /\ IsErrorBody(Response)

\* the celestial-navigation step failed or its body is malformed
CelnavDegraded ==
  \/ io.celnav.kind \in {"reject", "notok", "badjson"}
  \/ /\ io.celnav.kind = "ok"
     /\ \/ io.celnav.body.shape # "array"
        \/ \E i \in 1..Len(io.celnav.body.items) :
             \/ io.celnav.body.items[i].object = <<>>
             \/ io.celnav.body.items[i].almanac_data = <<>>

\* the status of the response when the secondary source returns no data
StatusWithoutCelnav ==
  IF astronomyData.sundata # <<>> /\ (SunPair(astronomyData) \/ MoonPair(astronomyData))
    THEN 200 ELSE 500

\* the Sun and Moon objects of the response when the secondary source
\* returns no data
SunMoonWithoutCelnav ==
  (IF SunPair(astronomyData)
     THEN << SunObject(clock, date,
                       FindEvent(astronomyData.sundata[1], "Rise")[1],
                       FindEvent(astronomyData.sundata[1], "Set")[1],
                       NextSunrise(io.tomorrow, NextDay(date)), hourCycle) >>
     ELSE <<>>)
  \o MoonObjects(clock, astronomyData, date, hourCycle)

\* the secondary source gave nothing usable at all: the fetch failed, or
\* the body is unparseable or has no array of entries
CelnavUnusable ==
  \/ io.celnav.kind \in {"reject", "notok", "badjson"}
  \/ io.celnav.kind = "ok" /\ io.celnav.body.shape # "array"

\* C7: when the celestial-navigation step fails or returns a malformed body,
\* the request does not fail because of it: a request that answers 200 when
\* the secondary source returns no data still answers 200, with the same Sun
\* and Moon objects; and when nothing of the secondary body is usable the
\* status is exactly the one without secondary data.
C7_CelnavNeverFails ==
  (Done /\ CelnavDegraded)
    => /\ StatusWithoutCelnav = 200 => Response.status = 200
       /\ CelnavUnusable => Response.status = StatusWithoutCelnav
       /\ Response.status = 200 =>
            SelectSeq(Response.body.objects,
                      LAMBDA ob : ob.id \in {<<"s","u","n">>, <<"m","o","o","n">>})
              = SunMoonWithoutCelnav

\* the next-day fetch failed, or its body is incomplete or has no "Rise"
TomorrowFailed ==
  \/ io.tomorrow.kind \in {"reject", "notok", "badjson"}
  \/ /\ io.tomorrow.kind = "ok"
     /\ ~HasEvent(io.tomorrow.body.sundata, "Rise")

\* C8: when the next-day fetch fails the request still succeeds with exactly
\* one Sun object, whose visibility is poor if the current instant is after
\* its sunset and good otherwise.
C8_TomorrowFailureSwallowed ==
  (Done /\ TomorrowFailed)
    => /\ Response.status = 200
       /\ LET suns == WithId(Response.body.objects, <<"s","u","n">>) IN
          /\ Len(suns) = 1
          /\ suns[1].visibility =
               (IF clock > InstantOf(suns[1].setTime) THEN "poor" ELSE "good")

C8_Witness ==
  /\ Done
  /\ io.tomorrow.kind = "reject"
  /\ Response.status = 200
  /\ \E i \in 1..Len(Response.body.objects) :
       /\ Response.body.objects[i].id = <<"s","u","n">>
       /\ Response.body.objects[i].visibility = "poor"
       /\ clock > InstantOf(Response.body.objects[i].setTime)

\* C9: every object of a 200 response sets strictly after it rises.
C9_SetAfterRise ==
  (Done /\ Response.status = 200)
    => \A i \in 1..Len(Response.body.objects) :
         InstantOf(Response.body.objects[i].setTime)
           > InstantOf(Response.body.objects[i].riseTime)

\* the upstream moonset clock time is earlier than the moonrise clock time
MoonsetBeforeMoonrise(data) ==
  /\ MoonPair(data)
  /\ LET rise == FindEvent(data.moondata[1], "Rise")[1].time
         set == FindEvent(data.moondata[1], "Set")[1].time
     IN set[1] * 60 + set[2] < rise[1] * 60 + rise[2]

\* C10: when the upstream moonset clock time is earlier than the moonrise
\* clock time, the Moon's riseTime carries the request date, its setTime the
\* next calendar day, and its visibility is good exactly when the current
\* instant is in [riseTime, setTime), poor otherwise.
C10_MoonsetRollover ==
  (Done /\ Response.status = 200 /\ MoonsetBeforeMoonrise(astronomyData))
    => LET moons == WithId(Response.body.objects, <<"m","o","o","n">>) IN
       /\ Len(moons) = 1
       /\ moons[1].riseTime.date = date
       /\ moons[1].setTime.date = NextDay(moons[1].riseTime.date)
       /\ moons[1].visibility =
            (IF /\ clock >= InstantOf(moons[1].riseTime)
                /\ clock < InstantOf(moons[1].setTime)
               THEN "good" ELSE "poor")

\* moonrise 08:00, moonset 00:34, now 10:00 on the request date: good
C10_Witness ==
  /\ Done
  /\ Response.status = 200
  /\ MoonsetBeforeMoonrise(astronomyData)
  /\ ISODateOf(clock) = date
  /\ UTCHours(clock) = 10
  /\ \E i \in 1..Len(Response.body.objects) :
       /\ Response.body.objects[i].id = <<"m","o","o","n">>
       /\ Response.body.objects[i].riseTime.time = <<8, 0>>
       /\ Response.body.objects[i].setTime.time = <<0, 34>>
       /\ Response.body.objects[i].visibility = "good"

\* ------------------------------------------------------------------ C11
\* the instant of a date string is known and strictly before now
StrictlyAfter(now, iso) == IsValidDate(iso) /\ InstantOf(iso) < now
\* the instant of a date string is known and strictly after now
StrictlyBefore(now, iso) == IsValidDate(iso) /\ now < InstantOf(iso)

\* what the rule of C11 asks of one call
SunRule(c) ==
  IF /\ StrictlyAfter(c.now, c.sunset)
     /\ (c.nextSunrise = <<>> \/ StrictlyBefore(c.now, c.nextSunrise[1]))
    THEN "poor"
    ELSE "good"

\* C11: every call of the sun-visibility rule answers poor exactly when the
\* current instant is strictly after sunset and the next sunrise is either
\* not given or strictly ahead; it answers good in every other case, and
\* never ok.
C11_SunVisibilityRule ==
  \A i \in 1..Len(sunCalls) :
    /\ sunCalls[i].result = SunRule(sunCalls[i])
    /\ sunCalls[i].result \in {"good", "poor"}

\* a poor answer between sunset and a given next sunrise, then a good one
\* at the very instant of that next sunrise, and a good one at the very
\* instant of sunset
C11_Witness ==
  \E i, j, k \in 1..Len(sunCalls) :
    /\ sunCalls[i].nextSunrise # <<>>
    /\ StrictlyAfter(sunCalls[i].now, sunCalls[i].sunset)
    /\ StrictlyBefore(sunCalls[i].now, sunCalls[i].nextSunrise[1])
    /\ sunCalls[i].result = "poor"
    /\ sunCalls[j].nextSunrise # <<>>
    /\ IsValidDate(sunCalls[j].nextSunrise[1])
    /\ sunCalls[j].now = InstantOf(sunCalls[j].nextSunrise[1])
    /\ sunCalls[j].result = "good"
    /\ IsValidDate(sunCalls[k].sunset)
    /\ sunCalls[k].now = InstantOf(sunCalls[k].sunset)
    /\ sunCalls[k].result = "good"

\* ------------------------------------------------------------------ C15
\* two calls of the rule were given the same arguments
SameArguments(c, d) == c.sunset = d.sunset /\ c.nextSunrise = d.nextSunrise

\* C15: two calls of the sun-visibility rule with the same sunset and
\* nextSunrise arguments give the same result, whenever each call is made
\* and whatever calls are made in between.
C15_SameArgumentsSameResult ==
  \A i, j \in 1..Len(sunCalls) :
    SameArguments(sunCalls[i], sunCalls[j]) => sunCalls[i].result = sunCalls[j].result

\* ------------------------------------------------------------------ C12
\* C12: within a 200 response of the sky-objects endpoint all objects have
\* pairwise distinct ids.
C12_DistinctIds ==
  (Done /\ Response.status = 200)
    => \A i, j \in 1..Len(Response.body.objects) :
         i # j => Response.body.objects[i].id # Response.body.objects[j].id

\* ------------------------------------------------------------------ C13
\* C13: every 200 response of the sky-objects endpoint has between 1 and 5
\* objects.
C13_OneToFiveObjects ==
  (Done /\ Response.status = 200)
    => Len(Response.body.objects) \in 1..5

\* ------------------------------------------------------------------ C14
\* the Sun object the claim describes for a request on date d: the sun
\* "Rise" and "Set" clock times of the primary payload on that date
SunAsClaimed(ob, d, data) ==
  /\ ob.riseTime.date = d
  /\ ob.riseTime.time = FindEvent(data.sundata[1], "Rise")[1].time
  /\ ob.setTime.date = d
  /\ ob.setTime.time = FindEvent(data.sundata[1], "Set")[1].time
  /\ ob.riseTime.suffix = ".000Z"
  /\ ob.setTime.suffix = ".000Z"

\* C14: a request whose primary payload (with its coordinates) has a sun
\* Rise and a sun Set gets a response with exactly one object of id "sun",
\* whose riseTime and setTime are the request date with those clock times,
\* hour and minute unchanged.
C14_SunTimes ==
  (Done /\ PrimarySucceeded /\ io.primary.body.geometry # <<>>
        /\ SunPair(io.primary.body))
    => /\ Response.status = 200
       /\ Len(WithId(Response.body.objects, <<"s","u","n">>)) = 1
       /\ SunAsClaimed(WithId(Response.body.objects, <<"s","u","n">>)[1],
                       Response.body.date, io.primary.body)

\* the same on the 200 responses only
C14_SunTimesOnSuccess ==
  (Done /\ PrimarySucceeded /\ SunPair(io.primary.body) /\ Response.status = 200)
    => /\ Len(WithId(Response.body.objects, <<"s","u","n">>)) = 1
       /\ SunAsClaimed(WithId(Response.body.objects, <<"s","u","n">>)[1],
                       Response.body.date, io.primary.body)

\* ------------------------------------------------- chat endpoint helpers
ChatDone == chatPc = "done"
ChatResponse == chatResponses[1]
ChatHasError(status, code) ==
  /\ ChatResponse.status = status
  /\ DOMAIN ChatResponse.body = {"error"}
  /\ ChatResponse.body.error.code = code

\* request.json() gave a JSON value
Parsed == body.kind \in {"null", "number", "object"}

\* the six rules of chat validation, each as the set of bodies breaking it
LocationBroken == body.location = <<>> \/ body.location[1].t # "string"
                    \/ \A i \in 1..Len(body.location[1].s) : body.location[1].s[i] \in Whitespace
DateMissing == body.date = <<>> \/ body.date[1].t # "string" \/ body.date[1].s = <<>>
DateBroken == DateMissing \/ ~dateRegex(body.date[1].s)
ObjectsBroken == body.objects = <<>> \/ body.objects[1].t # "array"
                   \/ body.objects[1].items = <<>>
MessagesBroken == body.messages = <<>> \/ body.messages[1].t # "array"
                    \/ body.messages[1].items = <<>>
MessageEntries == IF MessagesBroken THEN <<>> ELSE body.messages[1].items
NoUserEntry == \A i \in 1..Len(MessageEntries) : MessageEntries[i].role # <<"user">>
RoleBroken(msg) == msg.t # "object" \/ msg.role \notin {<<"user">>, <<"assistant">>}
ContentBroken(msg) ==
  \/ msg.content = <<>>
  \/ msg.content[1].t # "string"
  \/ \A i \in 1..Len(msg.content[1].s) : msg.content[1].s[i] \in Whitespace
EntryBroken(msg) == RoleBroken(msg) \/ ContentBroken(msg)
SomeEntryBroken == \E i \in 1..Len(MessageEntries) : EntryBroken(MessageEntries[i])

\* the body fails field validation
FailsValidation ==
  /\ Parsed
  /\ \/ LocationBroken \/ DateBroken \/ ObjectsBroken \/ MessagesBroken
     \/ NoUserEntry \/ SomeEntryBroken

\* the message of the earliest broken rule, in the order location, date,
\* objects, messages, user-message presence, per-message role and content
EarliestBrokenRule ==
  IF LocationBroken THEN <<"location is required and must be a non-empty string">>
  ELSE IF DateMissing THEN <<"date is required and must be a string">>
  ELSE IF DateBroken THEN <<"date must be a valid ISO date (YYYY-MM-DD)">>
  ELSE IF body.objects = <<>> \/ body.objects[1].t # "array"
    THEN <<"objects is required and must be an array">>
  ELSE IF ObjectsBroken THEN <<"objects array must contain at least one object">>
  ELSE IF body.messages = <<>> \/ body.messages[1].t # "array"
    THEN <<"messages is required and must be an array">>
  ELSE IF MessagesBroken THEN <<"messages array must contain at least one message">>
  ELSE IF NoUserEntry
    THEN <<"messages array must contain at least one message with role 'user'">>
  ELSE LET i == CHOOSE k \in 1..Len(MessageEntries) :
                   /\ EntryBroken(MessageEntries[k])
                   /\ \A j \in 1..(k - 1) : ~EntryBroken(MessageEntries[j]) IN
       IF RoleBroken(MessageEntries[i])
         THEN <<"messages[", IndexText(i), "].role must be either \"user\" or \"assistant\"">>
         ELSE <<"messages[", IndexText(i), "].content must be a non-empty string">>

\* every entry of the messages list is a JSON object
EntriesAreObjects ==
  \A i \in 1..Len(MessageEntries) : MessageEntries[i].t # "null"

\* ------------------------------------------------------------------ C16
\* C16: a chat request whose body is not parseable JSON, or is parseable
\* JSON that fails field validation, is answered 400 BAD_REQUEST.
C16_MalformedIsBadRequest ==
  (ChatDone /\ (body.kind = "unparseable" \/ FailsValidation))
    => ChatHasError(400, "BAD_REQUEST")

\* the same for the bodies that are not null and whose message entries are
\* not null
C16_BadRequestWithoutNull ==
  (ChatDone /\ (body.kind = "unparseable" \/ FailsValidation)
            /\ body.kind # "null" /\ EntriesAreObjects)
    => ChatHasError(400, "BAD_REQUEST")

\* ------------------------------------------------------------------ C17
\* C17: a JSON object that fails validation is answered 400 BAD_REQUEST
\* with the message of the earliest broken rule in the order location,
\* date, objects, messages, user-message presence, per-message fields.
C17_EarliestRuleReported ==
  (ChatDone /\ body.kind = "object" /\ FailsValidation)
    => /\ ChatHasError(400, "BAD_REQUEST")
       /\ ChatResponse.body.error.message = EarliestBrokenRule

\* the same on the 400 responses only
C17_OrderOnBadRequest ==
  (ChatDone /\ Parsed /\ ChatResponse.status = 400)
    => /\ FailsValidation
       /\ ChatResponse.body.error.message = EarliestBrokenRule

\* ------------------------------------------------------------------ C18
\* C18: a chat request whose messages list has no entry of role user is
\* answered 400 BAD_REQUEST, and the completion collaborator is invoked
\* neither for it nor for any other request answered 400.
C18_NoUserMessageRejected ==
  /\ (ChatDone /\ body.kind = "object" /\ ~MessagesBroken /\ NoUserEntry)
       => (ChatHasError(400, "BAD_REQUEST") /\ modelCalls = <<>>)
  /\ (ChatDone /\ ChatResponse.status = 400) => modelCalls = <<>>

\* the same for the lists whose entries are not null
C18_RejectedWithoutNull ==
  /\ (ChatDone /\ body.kind = "object" /\ ~MessagesBroken /\ NoUserEntry
               /\ EntriesAreObjects)
       => (ChatHasError(400, "BAD_REQUEST") /\ modelCalls = <<>>)
  /\ (ChatDone /\ ChatResponse.status = 400) => modelCalls = <<>>

\* ------------------------------------------------------------------ C19
\* the error text of a failing completion collaborator
CollaboratorErrorText ==
  IF apiKey = <<>> THEN <<"Missing OPENAI_API_KEY">>
  ELSE IF modelIo.kind = "notok" THEN <<modelIo.status, modelIo.text>>
  ELSE <<modelIo.text>>

\* the completion collaborator failed: no API key, a network error or a
\* non-success response
CollaboratorFailed ==
  apiKey = <<>> \/ modelIo.kind \in {"reject", "notok"}

\* C19: when a chat request passes validation and the completion
\* collaborator fails, the response is 502 MODEL_ERROR and its message
\* carries the collaborator's error text.
C19_ModelErrorIs502 ==
  (ChatDone /\ body.kind = "object" /\ ~FailsValidation /\ CollaboratorFailed)
    => /\ ChatHasError(502, "MODEL_ERROR")
       /\ \A i \in 1..Len(CollaboratorErrorText) :
            Contains(ChatResponse.body.error.message, CollaboratorErrorText[i])

\* a valid request answered 502 after the completion service answered 429
C19_Witness ==
  /\ ChatDone
  /\ body.kind = "object" /\ ~FailsValidation
  /\ apiKey # <<>>
  /\ modelIo.kind = "notok"
  /\ modelIo.status = "429"
  /\ ChatHasError(502, "MODEL_ERROR")
  /\ ChatResponse.body.error.message = <<"Model error: ", "429", " ", "rate limited">>

\* ------------------------------------------------------------------ C20
\* the objects of the request
RequestObjects == body.objects[1].items
\* the positions of the request's objects whose visibility is good
GoodPositions ==
  { i \in 1..Len(RequestObjects) : RequestObjects[i].visibility = <<"good">> }
FirstGood == CHOOSE i \in GoodPositions : \A j \in GoodPositions : i <= j

\* C20: on every 200 chat response meta.suggestedObjectId is present exactly
\* when some object of the request has visibility good, and is then the id
\* of the first such object; otherwise meta is omitted.  Stated for the
\* requests whose objects all have an id.
C20_SuggestedObject ==
  (ChatDone /\ ChatResponse.status = 200
            /\ \A i \in 1..Len(RequestObjects) : RequestObjects[i].id # <<>>)
    => /\ (ChatResponse.body.meta # <<>>) <=> (GoodPositions # {})
       /\ ChatResponse.body.meta # <<>>
            => <<ChatResponse.body.meta[1].suggestedObjectId>> = RequestObjects[FirstGood].id

\* the same for the requests whose objects all have a non-empty id
C20_SuggestedWithIds ==
  (ChatDone /\ ChatResponse.status = 200
            /\ \A i \in 1..Len(RequestObjects) :
                 RequestObjects[i].id # <<>> /\ RequestObjects[i].id # << <<>> >>)
    => /\ (ChatResponse.body.meta # <<>>) <=> (GoodPositions # {})
       /\ ChatResponse.body.meta # <<>>
            => <<ChatResponse.body.meta[1].suggestedObjectId>> = RequestObjects[FirstGood].id

\* ------------------------------------------------------------------ C21
\* the completion service answered successfully with content that is
\* empty, only whitespace, or missing
ContentUnusable ==
  /\ modelIo.kind = "ok"
  /\ \/ modelIo.shape = "nochoices"
     \/ /\ modelIo.shape = "content"
        /\ \/ modelIo.content.t = "null"
           \/ /\ modelIo.content.t = "string"
              /\ \A i \in 1..Len(modelIo.content.s) : modelIo.content.s[i] \in Whitespace

\* C21: the reply of every 200 chat response is a non-empty string with at
\* least one character that is not whitespace; it is the fixed apology when
\* the completion service answered with empty, blank or missing content.
C21_ReplyNonEmpty ==
  (ChatDone /\ ChatResponse.status = 200)
    => /\ ChatResponse.body.reply # <<>>
       /\ \E i \in 1..Len(ChatResponse.body.reply) :
            ChatResponse.body.reply[i] \notin Whitespace
       /\ ContentUnusable
            => ChatResponse.body.reply
                 = <<"Sorry, I couldn't think of a good answer just now.">>

\* a 200 response to a completion whose content was only whitespace
C21_Witness ==
  /\ ChatDone
  /\ ChatResponse.status = 200
  /\ modelIo.kind = "ok"
  /\ modelIo.shape = "content"
  /\ modelIo.content = Blank
  /\ ChatResponse.body.reply = <<"Sorry, I couldn't think of a good answer just now.">>

\* ------------------------------------------------------------------ C22
\* the collaborator calls of one request, in the only order they may occur
CallOrder == <<"geocode", "rstt", "celnav", "rstt">>

\* C22: the calls issued so far are a prefix of geocode, primary fetch,
\* celestial-navigation fetch, next-day fetch, each at most once; the
\* primary fetch (for the request date) follows a successful geocoding, the
\* celestial-navigation fetch a successful primary fetch, and the next-day
\* fetch (for the day after) a primary payload with a sun Rise and Set.
C22_CallOrder ==
  /\ Len(calls) <= Len(CallOrder)
  /\ \A i \in 1..Len(calls) : calls[i].api = CallOrder[i]
  /\ Len(calls) >= 1 => ~LocationAbsentOrBlank
  /\ Len(calls) >= 2 => (GeocodeSucceeded /\ calls[2].date = date)
  /\ Len(calls) >= 3 => PrimarySucceeded
  /\ Len(calls) >= 4 => (SunPair(io.primary.body) /\ calls[4].date = NextDay(date))
  /\ GeocodeFailed => Len(calls) = 1
  /\ PrimaryFailed => Len(calls) = 2
  /\ Done => Len(calls) = Len(SelectSeq(<<io.geocode, io.primary, io.celnav, io.tomorrow>>,
                                        LAMBDA o : o.kind # "none"))

\* a request that issued all four calls and whose next-day fetch failed
C22_Witness ==
  /\ Done
  /\ ApisCalled = CallOrder
  /\ io.tomorrow.kind = "reject"
  /\ Response.status = 200

\* ------------------------------------------------------------------ C23
\* C23: when the celestial-navigation fetch is issued, the date and the
\* time of day it sends are those of the clock reading at that moment.
C23_CelnavForNow ==
  [][(pc = "primary" /\ pc' = "celnav")
       => /\ calls'[Len(calls')].api = "celnav"
          /\ calls'[Len(calls')].time = <<UTCHours(clock), UTCMinutes(clock)>>
          /\ calls'[Len(calls')].date = ISODateOf(clock)]_vars

\* ------------------------------------------------- C24 .. C27 (helpers)
\* the mapping was called and returned (it did not raise)
MapReturned == celnavMaps # <<>> /\ ~celnavMaps[1].result.threw
\* the entries handed to the call, and the objects it returned
MapEntries == celnavMaps[1].celnavData.items
MapObjects == celnavMaps[1].result.objects
\* the entries the loop did not skip, in upstream order
MapKept == SelectSeq(MapEntries, LAMBDA item : ~CelnavSkipped(item))
\* the instant the date and the clock time handed to the call denote
MapInstant == InstantOf(ISO(celnavMaps[1].date, celnavMaps[1].time, ""))

SunOrMoon == { <<"s","u","n">>, <<"m","o","o","n">> }

\* the entry's name equals an allow-list name when letter case is ignored
NamedInAllowList(item) ==
  item.object # <<>> /\ toLowerCase(item.object[1]) \in KnownLowerCase

\* ------------------------------------------------------------------ C24
\* C24: every object of the celestial-navigation mapping has a name equal,
\* letter case ignored, to an allow-list name; the objects are exactly the
\* entries so named, in upstream order; none is named Sun or Moon.
C24_AllowListed ==
  MapReturned =>
    LET listed == SelectSeq(MapEntries, NamedInAllowList) IN
    /\ Len(MapObjects) = Len(listed)
    /\ \A i \in 1..Len(MapObjects) :
         /\ toLowerCase(MapObjects[i].name) \in KnownLowerCase
         /\ toLowerCase(MapObjects[i].name) \notin SunOrMoon
         /\ i <= Len(listed) => MapObjects[i].name = listed[i].object[1]

\* the same with the surrounding whitespace of the name left out of the
\* comparison, as the filter of the loop does
C24_AllowListedTrimmed ==
  MapReturned =>
    LET listed == SelectSeq(MapEntries,
                    LAMBDA item : /\ item.object # <<>>
                                  /\ toLowerCase(trim(item.object[1])) \in KnownLowerCase) IN
    /\ Len(MapObjects) = Len(listed)
    /\ \A i \in 1..Len(MapObjects) :
         /\ toLowerCase(trim(MapObjects[i].name)) \in KnownLowerCase
         /\ toLowerCase(trim(MapObjects[i].name)) \notin SunOrMoon
         /\ toLowerCase(MapObjects[i].name) \notin SunOrMoon
         /\ i <= Len(listed) => MapObjects[i].name = listed[i].object[1]

\* ------------------------------------------------------------------ C25
\* C25: every entry that passes the filter is typed planet when its name,
\* lower-cased, is one of the planet names; otherwise star when it has a
\* star-catalog index; otherwise other.
C25_TypeRule ==
  MapReturned =>
    /\ Len(MapObjects) = Len(MapKept)
    /\ \A i \in 1..Len(MapKept) :
         LET isPlanet == toLowerCase(MapKept[i].object[1]) \in planets
             hasIndex == MapKept[i].nav_star_number # <<>> IN
         /\ MapObjects[i].type \in {"planet", "star", "other"}
         /\ MapObjects[i].type = "planet" <=> isPlanet
         /\ MapObjects[i].type = "star" <=> (~isPlanet /\ hasIndex)
         /\ MapObjects[i].type = "other" <=> (~isPlanet /\ ~hasIndex)

\* a planet that carries a star-catalog index is typed planet, and an entry
\* that passed the filter only once trimmed is typed other, in one call
C25_Witness ==
  /\ MapReturned
  /\ Len(MapObjects) = 2
  /\ MapKept[1].nav_star_number # <<>> /\ MapObjects[1].type = "planet"
  /\ Head(MapKept[2].object[1]) \in Whitespace /\ MapObjects[2].type = "other"

\* ------------------------------------------------------------------ C26
\* C26: with T the instant of clock time h:m on request date D, an entry
\* above the horizon gets riseTime T - 6 h and setTime T + 6 h, any other
\* entry riseTime T + 6 h and setTime T + 18 h; the date moves to D-1 or D+1
\* exactly when the hour leaves 0..23, the hour stays in 0..23, the minutes
\* are those of the clock, and setTime is 12 hours after riseTime.
C26_EstimatedWindow ==
  MapReturned =>
    \A i \in 1..Len(MapKept) :
      LET hc == MapKept[i].almanac_data[1].hc
          h == celnavMaps[1].time[1]
          D == celnavMaps[1].date
          rise == MapObjects[i].riseTime
          set == MapObjects[i].setTime IN
      /\ InstantOf(rise) = MapInstant + (IF hc > 0 THEN -6 ELSE 6) * 60
      /\ InstantOf(set) = MapInstant + (IF hc > 0 THEN 6 ELSE 18) * 60
      /\ InstantOf(set) - InstantOf(rise) = 12 * 60
      /\ rise.time[1] \in 0..23 /\ set.time[1] \in 0..23
      /\ rise.time[2] = celnavMaps[1].time[2] /\ set.time[2] = celnavMaps[1].time[2]
      /\ rise.date = AddDays(D, -1) <=> (hc > 0 /\ h - 6 < 0)
      /\ rise.date = AddDays(D, 1) <=> (hc <= 0 /\ h + 6 >= 24)
      /\ set.date = AddDays(D, 1) <=> (IF hc > 0 THEN h + 6 >= 24 ELSE h + 18 >= 24)
      /\ rise.date \in {AddDays(D, -1), D, AddDays(D, 1)}
      /\ set.date \in {D, AddDays(D, 1)}

\* at 05:59 on 1 March 2024 an entry above the horizon rose on 29 February
\* at 23:59 and an entry below it sets on 1 March at 23:59
C26_Witness ==
  /\ MapReturned
  /\ celnavMaps[1].date = <<2024, 3, 1>> /\ celnavMaps[1].time = <<5, 59>>
  /\ Len(MapObjects) = 2
  /\ MapKept[1].almanac_data[1].hc > 0
  /\ MapObjects[1].riseTime = ISO(<<2024, 2, 29>>, <<23, 59>>, "")
  /\ MapKept[2].almanac_data[1].hc <= 0
  /\ MapObjects[2].setTime = ISO(<<2024, 3, 1>>, <<23, 59>>, "")

\* ------------------------------------------------------------------ C27
\* C27: the visibility of an entry is good exactly when its altitude is
\* above 30, ok exactly when it is above 0 and at most 30, poor exactly
\* when it is 0 or below.
C27_AltitudeVisibility ==
  MapReturned =>
    \A i \in 1..Len(MapKept) :
      LET hc == MapKept[i].almanac_data[1].hc
          v == MapObjects[i].visibility IN
      /\ v \in {"good", "ok", "poor"}
      /\ v = "good" <=> hc > 30
      /\ v = "ok" <=> (0 < hc /\ hc <= 30)
      /\ v = "poor" <=> hc <= 0

\* altitude 30 mapped to ok and altitude 0 mapped to poor in one call
C27_Witness ==
  /\ MapReturned
  /\ Len(MapObjects) = 2
  /\ MapKept[1].almanac_data[1].hc = 30 /\ MapObjects[1].visibility = "ok"
  /\ MapKept[2].almanac_data[1].hc = 0 /\ MapObjects[2].visibility = "poor"

\* ------------------------------------------------------------------ C28
\* the adapter raised: the handler answered with its processing error
AdapterRaised ==
  /\ IsErrorBody(Response)
  /\ Len(Response.body.error.message) >= 1
  /\ Response.body.error.message[1] = "Failed to process astronomy data: "

\* the list the adapter returned is the kept celestial-navigation entries in
\* upstream order, then a Sun exactly when the payload has a sun Rise and
\* Set, then a Moon exactly when it has a moon Rise and Set
AdapterOrder ==
  LET n == Len(CelnavKept)
      sun == IF SunPair(io.primary.body) THEN <<"sun">> ELSE <<>>
      moon == IF MoonPair(io.primary.body) THEN <<"moon">> ELSE <<>> IN
  /\ Len(objects) = n + Len(sun) + Len(moon)
  /\ \A i \in 1..Len(objects) :
       IF i <= n THEN objects[i].name = CelnavKept[i].object[1]
       ELSE objects[i].id = (sun \o moon)[i - n]

\* the payload has its geometry and every kept celestial-navigation entry
\* its almanac data: nothing but the sun and moon sections can be missing
OnlySunMoonPartial ==
  /\ PrimarySucceeded
  /\ io.primary.body.geometry # <<>>
  /\ \A i \in 1..Len(CelnavKept) : CelnavKept[i].almanac_data # <<>>

\* C28: when the primary payload has no sun Rise and Set pair, or no moon
\* Rise and Set pair, the adapter raises no error and returns the remaining
\* objects: celestial-navigation objects in upstream order, then the Sun,
\* then the Moon, each only when its pair is present.
C28_PartialData ==
  (Done /\ OnlySunMoonPartial
        /\ (~SunPair(io.primary.body) \/ ~MoonPair(io.primary.body)))
    => (~AdapterRaised /\ AdapterOrder)

\* the same for payloads that have a sundata array
C28_PartialDataWithSundata ==
  (Done /\ OnlySunMoonPartial /\ io.primary.body.sundata # <<>>
        /\ (~SunPair(io.primary.body) \/ ~MoonPair(io.primary.body)))
    => (~AdapterRaised /\ AdapterOrder)

\* a payload with a sundata array that lacks the Set event, and with a moon
\* pair: the adapter returned a celestial-navigation object and the Moon
C28_HandledPartial ==
  /\ Done /\ OnlySunMoonPartial
  /\ io.primary.body.sundata # <<>> /\ ~SunPair(io.primary.body)
  /\ Len(CelnavKept) >= 1
  /\ ~AdapterRaised /\ AdapterOrder

\* ------------------------------------------------------------------ C29
\* the note of a celestial-navigation object says it is below the horizon
NoteBelowHorizon(ob) == ob.note.text = "Below horizon, will rise later tonight"
\* the note reports a positive altitude
NotePositiveAltitude(ob) ==
  /\ ob.note.text = "Visible tonight at %1 altitude"
  /\ ob.note.args[1][1] > 0

\* visibility, note and estimated window of one object agree at instant t
WindowAgrees(ob, t) ==
  /\ ob.visibility = "poor"
       <=> (NoteBelowHorizon(ob) /\ InstantOf(ob.riseTime) > t)
  /\ ob.visibility \in {"good", "ok"}
       <=> (/\ NotePositiveAltitude(ob)
            /\ InstantOf(ob.riseTime) <= t
            /\ t < InstantOf(ob.setTime))

\* C29: for every celestial-navigation object of a response, visibility is
\* poor exactly when the note says below the horizon and riseTime is later
\* than the clock reading taken for the estimate, and good or ok exactly
\* when the note reports a positive altitude and that reading lies in
\* [riseTime, setTime).
C29_WindowAgrees ==
  (Done /\ Response.status = 200)
    => \A i \in 1..Len(CelnavKept) : WindowAgrees(Response.body.objects[i], mapNow)

\* the same when the clock reading falls on the request date
C29_WindowAgreesSameDay ==
  (Done /\ Response.status = 200 /\ ISODateOf(mapNow) = date)
    => \A i \in 1..Len(CelnavKept) : WindowAgrees(Response.body.objects[i], mapNow)

\* the same at the instant that the request date and the clock time of the
\* reading denote together
C29_WindowAgreesForArguments ==
  (Done /\ Response.status = 200)
    => \A i \in 1..Len(CelnavKept) :
         WindowAgrees(Response.body.objects[i], InstantOf(ISO(date, currentTime, "")))

\* ------------------------------------------------------------------ C30
\* the step is a submission by the user: handleSubmit appended a user
\* message to the list shown and started a request
UserSubmitted ==
  /\ ~isLoading /\ isLoading'
  /\ Len(messages') = Len(messages) + 1
  /\ messages'[Len(messages')].role = "user"
  /\ SubSeq(messages', 1, Len(messages)) = messages

\* the step applies a reset that was still to come
ResetApplied == pendingReset # "none" /\ pendingReset' = "none"

\* C30: opening the window resets the list to the greeting alone, and the
\* list then stays the greeting alone until the user submits a message,
\* whenever the answer of an earlier request arrives.
C30_ResetHolds ==
  [][/\ (ResetApplied /\ isOpen') => (messages' = <<Greeting>> \/ UserSubmitted)
     /\ (messages = <<Greeting>> /\ messages' # messages) => UserSubmitted]_vars

\* no request is awaited and no answer is left to render
NoAnswerToCome == inFlight = <<>> /\ answered = <<>>

\* the same for a window reset while no answer is to come
C30_ResetHoldsWhenIdle ==
  [][NoAnswerToCome =>
       /\ (ResetApplied /\ isOpen') => (messages' = <<Greeting>> \/ UserSubmitted)
       /\ (messages = <<Greeting>> /\ messages' # messages) => UserSubmitted]_vars

\* a window re-opened while a request is awaited shows the greeting alone
\* once its reset is applied
C30_ResetWhileAwaiting ==
  isOpen /\ pendingReset = "none" /\ messages = <<Greeting>> /\ inFlight # <<>>

====
